---- MODULE Spec2Model ----
(***************************************************************************)
(* PubMed MCP server (src/pubmed_mcp_server.py): the sliding-window rate   *)
(* limiter, the rate-limited gateway PubMedClient._make_request and the    *)
(* tools built on it.                                                      *)
(*                                                                         *)
(* Time is discrete: one Tick is 1/TicksPerSecond seconds.  A timestamp is *)
(* kept as its age (now - timestamp, in ticks), saturated at Window: the   *)
(* limiter only compares a timestamp with now - window_seconds.  Tasks     *)
(* are asyncio coroutines: an action is the code one task runs between     *)
(* two suspension points (await of the lock, of a sleep, of the HTTP       *)
(* exchange).  A sleep longer than Horizon ticks is kept as "Horizon or    *)
(* more ticks left": nothing in the program looks further ahead than one   *)
(* window, and the clock then lets such a sleep last any longer time.      *)
(***************************************************************************)
EXTENDS Integers, Sequences, FiniteSets, TLC

(* ------------------------------ bounds --------------------------------- *)
NumCallers == 2
TicksPerSecond == 2
MaxIds == 2
Excess == 200

(* ------------------------- program constants --------------------------- *)
MaxRequests == 3
WindowSeconds == 1
RetryAfterDefault == 60
SearchRetmaxMin == 1
SearchRetmaxMax == 200
SimilarRetmaxMin == 1
SimilarRetmaxMax == 100
MaxMeshTerms == 3
MaxTitleWords == 2
MinWordLen == 3
ICiteBatchMax == 1000

Callers == 1..NumCallers
Window == WindowSeconds * TicksPerSecond
Horizon == Window + 1

VARIABLES
  requests,     \* StrictRateLimiter.requests: ages of the kept timestamps, oldest first
  recorded,     \* every timestamp the limiter recorded that is younger than Window (ages)
  lockHolder,   \* StrictRateLimiter.lock: 0 when free, else the task inside "async with"
  lockWaiters,  \* tasks suspended in lock.acquire(), in arrival order
  pc,           \* per task: where it is suspended
  timer,        \* per task: ticks left of the asyncio.sleep it is in
  call,         \* per task: the request _make_request is working on
  resp,         \* per task: what the transport produced for the last attempt
  tool,         \* per task: the operation it runs
  args,         \* per task: the arguments of that operation
  locals,       \* per task: the operation's local variables kept across awaits
  result        \* per task: what the operation handed back to its caller

vars == <<requests, recorded, lockHolder, lockWaiters, pc, timer, call, resp,
          tool, args, locals, result>>

limiterVars == <<requests, recorded, lockHolder, lockWaiters>>

Min(a, b) == IF a < b THEN a ELSE b
Max(a, b) == IF a > b THEN a ELSE b

(* ------------------------------ values --------------------------------- *)
NoBody == [fmt |-> "none"]
NoCall == [endpoint |-> "none", method |-> "none", params |-> [db |-> "none"]]
NoResp == [kind |-> "none", status |-> 0, retry_after |-> "absent", body |-> NoBody]
NoArgs == [tag |-> "none"]
NoLocals == [tag |-> "none"]
NoResult == [kind |-> "none"]

Returned(v) == [kind |-> "return", value |-> v]
Raised(e, m, s) == [kind |-> "raise", exc |-> e, msg |-> m, status |-> s]

Request(endpoint, method, params) ==
  [endpoint |-> endpoint, method |-> method, params |-> params]

(* ------------------------------ sleeps --------------------------------- *)
\* await asyncio.sleep(seconds): the ticks the task stays suspended.
SleepFor(ticks) == Min(ticks, Horizon)

\* A sleep's remaining ticks after one more tick.
TimerAfterTick(t) ==
  IF t = 0 THEN {0}
  ELSE IF t = Horizon THEN {Horizon, Horizon - 1}
  ELSE {t - 1}

(* ----------------------- StrictRateLimiter ----------------------------- *)
EvictOnce(q) ==
  IF q /= <<>> /\ Head(q) >= Window THEN Tail(q) ELSE q

\* while self.requests and self.requests[0] <= now - self.window_seconds: popleft()
RECURSIVE Evict(_)
Evict(q) ==
  IF q /= <<>> /\ Head(q) >= Window THEN Evict(Tail(q)) ELSE q

AtLimitOffByOne(q) == Len(q) > MaxRequests

\* if len(self.requests) >= self.max_requests
AtLimit(q) == Len(q) >= MaxRequests

\* sleep_time = (self.requests[0] + self.window_seconds) - now + 0.001, in ticks;
\* the 0.001 s buffer is below one tick and only makes the sleep end strictly
\* after the oldest timestamp has left the window.
SleepTicks(q) == Window - Head(q)

\* The body of "async with self.lock" once the lock is taken.
CriticalSection(c) ==
  LET kept == Evict(requests) IN
  IF AtLimit(kept) /\ SleepTicks(kept) >= 0
  THEN \* await asyncio.sleep(sleep_time), the lock still held
       /\ requests' = kept
       /\ lockHolder' = c
       /\ timer' = [timer EXCEPT ![c] = SleepFor(SleepTicks(kept))]
       /\ pc' = [pc EXCEPT ![c] = "sleeping"]
       /\ UNCHANGED <<recorded, lockWaiters>>
  ELSE \* self.requests.append(now); the lock is released on leaving the block
       /\ requests' = Append(kept, 0)
       /\ recorded' = Append(recorded, 0)
       /\ lockHolder' = 0
       /\ pc' = [pc EXCEPT ![c] = "in_flight"]
       /\ UNCHANGED <<timer, lockWaiters>>

AcquireUnlocked(c) == CriticalSection(c)

\* await rate_limiter.acquire(): asyncio.Lock is taken at once when it is free and
\* nobody queues for it, otherwise the task queues; the lock has no owner, so the
\* task holding it queues like any other.
Acquire(c) ==
  IF lockHolder = 0 /\ lockWaiters = <<>>
  THEN CriticalSection(c)
  ELSE /\ lockWaiters' = Append(lockWaiters, c)
       /\ pc' = [pc EXCEPT ![c] = "lock_wait"]
       /\ UNCHANGED <<requests, recorded, lockHolder, timer>>

\* asyncio.sleep(sleep_time) is over: return await self.acquire()
WakeLimiter(c) ==
  /\ pc[c] = "sleeping"
  /\ timer[c] = 0
  /\ Acquire(c)
  /\ UNCHANGED <<call, resp, tool, args, locals, result>>

(* --------------------------- the clock --------------------------------- *)
Tick ==
  /\ requests' = [i \in DOMAIN requests |-> Min(requests[i] + 1, Window)]
  /\ recorded' = LET aged == [i \in DOMAIN recorded |-> recorded[i] + 1]
                     Young(a) == a < Window
                 IN SelectSeq(aged, Young)
  /\ timer' \in {t \in [Callers -> 0..Horizon] :
                   \A c \in Callers : t[c] \in TimerAfterTick(timer[c])}
  /\ UNCHANGED <<lockHolder, lockWaiters, pc, call, resp, tool, args, locals, result>>

(* ----------------------------- upstream -------------------------------- *)
\* What a Retry-After header can hold: nothing, delay-seconds, or an HTTP-date.
RetryAfterHeaders == {"absent", "0", "1", "Wed, 21 Oct 2015 07:28:00 GMT"}

ErrorStatuses == {404, 500}

TransportError == [kind |-> "request_error", status |-> 0, retry_after |-> "absent",
                   body |-> NoBody]
HttpResponse(status, retry_after, body) ==
  [kind |-> "http", status |-> status, retry_after |-> retry_after, body |-> body]

\* A body that is not the JSON (or XML) its reader expects.
Malformed == [fmt |-> "malformed"]

\* esearch.fcgi, retmode=json: {"esearchresult": {"idlist": [...], "count": "..."}},
\* the JSON without "esearchresult", or no JSON at all.  The service may hand back
\* any identifier list, whatever retmax asked for.
PMIDs == {"11", "22"}
IdLists == UNION {[1..n -> PMIDs] : n \in 0..MaxIds}
CountFields == {"absent", "0", "1", "n/a"}
EsearchBodies ==
  {Malformed, [fmt |-> "esearch", has_result |-> FALSE, idlist |-> <<>>, count |-> "absent"]}
    \cup {[fmt |-> "esearch", has_result |-> TRUE, idlist |-> l, count |-> n] :
            l \in IdLists, n \in CountFields}

\* esummary.fcgi, retmode=json: {"result": {pmid: {..., "articleids": [...]}}}.  Per
\* identifier: no record; a record without a pmc article id; with one; with one that
\* has no "value"; with one whose value is the empty string.
RecordKinds == {"missing", "plain", "pmc", "pmc_novalue", "pmc_empty"}
EsummaryBodies ==
  {Malformed, [fmt |-> "esummary", has_result |-> FALSE,
               records |-> [p \in PMIDs |-> "missing"]]}
    \cup {[fmt |-> "esummary", has_result |-> TRUE, records |-> r] :
            r \in [PMIDs -> RecordKinds]}

\* efetch.fcgi, db=pubmed, retmode=xml: the MeshHeading elements (the text of each
\* one's DescriptorName, or NoDescriptor) and the ArticleTitle text: whether it is
\* a non-empty string, and its whitespace-separated words.
NoDescriptor == <<>>
MeshLists ==
  {<<>>, <<NoDescriptor>>,
   <<<<"F", "l", "u">>, <<"A", "d", "u", "l", "t">>, <<"C", "h", "i", "l", "d">>, <<"H", "u", "m", "a", "n">>>>}
Titles ==
  {[truthy |-> FALSE, words |-> <<>>],
   [truthy |-> TRUE, words |-> <<>>],
   [truthy |-> TRUE, words |-> <<<<"T", "h", "e">>, <<"s", "t", "u", "d", "y">>>>],
   [truthy |-> TRUE, words |-> <<<<"(", "T", "h", "e", ")">>, <<"A", "s", "t", "h", "m", "a", ",">>, <<"w", "i", "t", "h">>, <<"C", "h", "i", "l", "d", "r", "e", "n">>>>]}
EfetchBodies ==
  {Malformed} \cup {[fmt |-> "pubmed_xml", mesh |-> m, title |-> t] :
                      m \in MeshLists, t \in Titles}

\* An element of the document: whether it is there, and its text.
NoElement == [present |-> FALSE, text |-> <<>>]
Element(text) == [present |-> TRUE, text |-> text]

\* A <sec>: its <title>, its direct <p> children (each the texts and tails under
\* it, in document order) and its direct <sec> children.
Sec(title, paras, subs) == [title |-> title, paras |-> paras, subs |-> subs]

\* The body of the document with sections Intro ("A B") and Methods ("C D", with
\* the nested section Sub, "E").
IntroMethodsBody ==
  <<Sec(Element(<<"I", "n", "t", "r", "o">>), <<<<<<"A", " ", "B">>>>>>, <<>>),
    Sec(Element(<<"M", "e", "t", "h", "o", "d", "s">>), <<<<<<"C", " ", "D">>>>>>,
        <<Sec(Element(<<"S", "u", "b">>), <<<<<<"E">>>>>>, <<>>)>>)>>

\* A body with an untitled section whose paragraph has padded and empty texts, a
\* section without text, and a section whose text is all in nested sections, two
\* levels deep, the outer one untitled.
RaggedBody ==
  <<Sec(NoElement, <<<<<<" ", "x", " ">>, <<>>, <<"y", "\n">>>>, <<<<" ">>>>>>, <<>>),
    Sec(Element(<<"E", "m", "p", "t", "y">>), <<>>, <<>>),
    Sec(Element(<<" ", "T", " ">>), <<>>,
        <<Sec(NoElement, <<<<<<"E">>>>>>,
              <<Sec(Element(<<"D", "e", "e", "p">>), <<<<<<"F">>>>>>, <<>>)>>)>>)>>

\* efetch.fcgi, db=pmc, retmode=xml: no text, the publisher's refusal, text that
\* is not XML, or a JATS document, with or without a <body>.
JatsDocument(has_body, body) == [fmt |-> "jats", has_body |-> has_body, body |-> body]
JatsTexts ==
  {[fmt |-> "empty"], [fmt |-> "restricted"], Malformed,
   JatsDocument(FALSE, <<>>), JatsDocument(TRUE, <<>>),
   JatsDocument(TRUE, IntroMethodsBody), JatsDocument(TRUE, RaggedBody)}

\* The open-access service's answer: text that is not XML, or XML of one of these
\* shapes: a root other than <OA>; <OA> with an <error>; an empty <OA/>; an empty
\* <records/>; <records> without <record>; several <record>s; a record without
\* <link>; with one non-pdf link; with one pdf link; with a tgz and a pdf link;
\* with a pdf link that has no href.
OaShapes ==
  {"not_oa", "oa_error", "oa_empty", "records_empty", "no_record", "record_list",
   "no_link", "link_tgz", "link_pdf", "links_tgz_pdf", "pdf_nohref"}
OaBodies == {Malformed} \cup {[fmt |-> "oa", shape |-> sh] : sh \in OaShapes}
PdfHref == "https://ftp.ncbi.nlm.nih.gov/pub/pmc/oa_pdf/article.pdf"

\* An <Author> of an AuthorList: its <ForeName> and <LastName> children, each
\* there with its text or not there (a collective name has neither).
NoNamePart == [present |-> FALSE, text |-> ""]
Author(forename, lastname) == [forename |-> forename, lastname |-> lastname]
AuthorList ==
  <<Author(Element("Jane"), Element("Doe")),
    Author(NoNamePart, Element("Poe")),
    Author(Element("Cher"), NoNamePart),
    Author(NoNamePart, NoNamePart),
    Author(Element("Ann"), Element("Roe"))>>

\* efetch.fcgi, db=pubmed, rettype=abstract, as get_abstracts reads it: text that
\* is not XML, or the <PubmedArticle> records, each with its MedlineCitation/PMID
\* text or without that element, and with its authors.
Article(pmid, authors) == [has_pmid |-> TRUE, pmid |-> pmid, authors |-> authors]
ArticleWithoutPmid == [has_pmid |-> FALSE, pmid |-> <<>>, authors |-> AuthorList]
Articles == {Article(<<"4", "2">>, AuthorList), ArticleWithoutPmid, Article(<<"7">>, <<>>)}
ArticleLists == UNION {[1..n -> Articles] : n \in 0..MaxIds}
ArticleSets == {Malformed} \cup {[fmt |-> "articleset", articles |-> l] : l \in ArticleLists}

\* The bodies a 200 answer of an endpoint can carry.
Bodies(endpoint) ==
  CASE endpoint = "esearch" -> EsearchBodies
    [] endpoint = "esummary" -> EsummaryBodies
    [] endpoint = "efetch" -> EfetchBodies
    [] endpoint = "efetch.articles" -> ArticleSets
    [] endpoint = "efetch.pmc" -> JatsTexts
    [] endpoint = "oa" -> OaBodies
    [] OTHER -> {[fmt |-> "opaque"]}

Responses(endpoint) ==
  {TransportError}
    \cup {HttpResponse(429, h, NoBody) : h \in RetryAfterHeaders}
    \cup {HttpResponse(s, "absent", NoBody) : s \in ErrorStatuses}
    \cup {HttpResponse(200, "absent", b) : b \in Bodies(endpoint)}

(* ---------------------- PubMedClient._make_request --------------------- *)
Retry(delay) == [kind |-> "retry", delay |-> delay]

\* int(text) for the decimal strings of the model; any other text raises ValueError.
IsDecimal(text) == text \in {"0", "1"}
IntOf(text) == IF text = "0" THEN 0 ELSE 1

OnRequestErrorRetried == Retry(0)

\* except httpx.RequestError as e: raise PubMedAPIError(f"Network request failed: {e}")
OnRequestError == Raised("PubMedAPIError", "Network request failed", 0)

RaiseForStatusWrapped(r) ==
  IF r.status >= 200 /\ r.status < 300
  THEN Returned(r)
  ELSE Raised("PubMedAPIError", "Network request failed", 0)

\* response.raise_for_status(); return response
RaiseForStatus(r) ==
  IF r.status >= 200 /\ r.status < 300
  THEN Returned(r)
  ELSE Raised("HTTPStatusError", "status", r.status)

\* retry_after = int(response.headers.get("Retry-After", 60)); await asyncio.sleep(retry_after)
OnTooManyRequests(r) ==
  IF r.retry_after = "absent" THEN Retry(RetryAfterDefault)
  ELSE IF IsDecimal(r.retry_after) THEN Retry(IntOf(r.retry_after))
  ELSE Raised("ValueError", "invalid literal for int()", 0)

\* What _make_request does with the transport's answer to one attempt.
Outcome(r) ==
  IF r.kind = "request_error" THEN OnRequestError
  ELSE IF r.status = 429 THEN OnTooManyRequests(r)
  ELSE RaiseForStatus(r)

MakeRequestUnthrottled(c, req) ==
  /\ call' = [call EXCEPT ![c] = req]
  /\ resp' = [resp EXCEPT ![c] = NoResp]
  /\ pc' = [pc EXCEPT ![c] = "in_flight"]
  /\ UNCHANGED <<limiterVars, timer>>

\* _make_request(url, params, method) up to its first suspension point.
MakeRequest(c, req) ==
  /\ call' = [call EXCEPT ![c] = req]
  /\ resp' = [resp EXCEPT ![c] = NoResp]
  /\ Acquire(c)

\* The transport answers (or fails) the attempt in flight.
Respond(c) ==
  /\ pc[c] = "in_flight"
  /\ \E r \in Responses(call[c].endpoint) : resp' = [resp EXCEPT ![c] = r]
  /\ pc' = [pc EXCEPT ![c] = "responded"]
  /\ UNCHANGED <<limiterVars, timer, call, tool, args, locals, result>>

\* if response.status_code == 429: ... await asyncio.sleep(retry_after)
Backoff(c) ==
  /\ pc[c] = "responded"
  /\ Outcome(resp[c]).kind = "retry"
  /\ timer' = [timer EXCEPT ![c] = SleepFor(Outcome(resp[c]).delay * TicksPerSecond)]
  /\ pc' = [pc EXCEPT ![c] = "backoff"]
  /\ UNCHANGED <<limiterVars, call, resp, tool, args, locals, result>>

\* return await self._make_request(url, params, method)
WakeBackoff(c) ==
  /\ pc[c] = "backoff"
  /\ timer[c] = 0
  /\ Acquire(c)
  /\ UNCHANGED <<call, resp, tool, args, locals, result>>

(* ------------------- callers of the gateway alone ---------------------- *)
\* A task calls client._make_request(url, params) for some endpoint.
RawCall(c) ==
  /\ pc[c] = "idle"
  /\ tool' = [tool EXCEPT ![c] = "raw"]
  /\ result' = [result EXCEPT ![c] = NoResult]
  /\ MakeRequest(c, Request("raw", "GET", [db |-> "any"]))
  /\ UNCHANGED <<args, locals>>

\* _make_request returns the response or raises: the call is over.
RawFinish(c) ==
  /\ pc[c] = "responded"
  /\ tool[c] = "raw"
  /\ Outcome(resp[c]).kind /= "retry"
  /\ result' = [result EXCEPT ![c] = Outcome(resp[c])]
  /\ pc' = [pc EXCEPT ![c] = "idle"]
  /\ UNCHANGED <<limiterVars, timer, call, resp, tool, args, locals>>

Init ==
  /\ requests = <<>>
  /\ recorded = <<>>
  /\ lockHolder = 0
  /\ lockWaiters = <<>>
  /\ pc = [c \in Callers |-> "idle"]
  /\ timer = [c \in Callers |-> 0]
  /\ call = [c \in Callers |-> NoCall]
  /\ resp = [c \in Callers |-> NoResp]
  /\ tool = [c \in Callers |-> "none"]
  /\ args = [c \in Callers |-> NoArgs]
  /\ locals = [c \in Callers |-> NoLocals]
  /\ result = [c \in Callers |-> NoResult]

GatewayStep(c) ==
  \/ WakeLimiter(c)
  \/ Respond(c)
  \/ Backoff(c)
  \/ WakeBackoff(c)

Next ==
  \/ Tick
  \/ \E c \in Callers : RawCall(c)
  \/ \E c \in Callers : GatewayStep(c)
  \/ \E c \in Callers : RawFinish(c)

Spec == Init /\ [][Next]_vars

\* The event loop runs every task that can run, the transport ends every exchange
\* and the clock advances.
LiveSpec ==
  /\ Spec
  /\ WF_vars(Tick)
  /\ \A c \in Callers : WF_vars(GatewayStep(c)) /\ WF_vars(RawFinish(c))

(* ======================== the search tool ============================== *)
None == "None"
Absent == "<absent>"

Whitespace == {" ", "\t", "\n"}

\* str.strip(chars)
RECURSIVE LStrip(_, _)
LStrip(q, chars) ==
  IF q /= <<>> /\ Head(q) \in chars THEN LStrip(Tail(q), chars) ELSE q
RECURSIVE RStrip(_, _)
RStrip(q, chars) ==
  IF q /= <<>> /\ q[Len(q)] \in chars
  THEN RStrip(SubSeq(q, 1, Len(q) - 1), chars) ELSE q
Strip(q) == RStrip(LStrip(q, Whitespace), Whitespace)

IsBlankUnstripped(q) == q = <<>>

\* not query or not query.strip()
IsBlank(q) == q = <<>> \/ Strip(q) = <<>>

\* if retmax < 1: retmax = 1 / elif retmax > hi: retmax = hi
Clamp(n, lo, hi) == IF n < lo THEN lo ELSE IF n > hi THEN hi ELSE n

Queries == {<<>>, <<" ", "\t">>, <<"c", "o", "v", "i", "d">>}
RetmaxInputs == {0, 1, 201}
SortInputs == {"relevance", "pub_date", "date"}

ValidSortUnchecked(sort) == TRUE

\* if sort not in ["relevance", "pub_date"]
ValidSort(sort) == sort \in {"relevance", "pub_date"}

\* A step of an operation: it issues its next request, or it is over.
CallNext(req, loc) == [next |-> "call", req |-> req, locals |-> loc]
Done(ret, loc) == [next |-> "done", ret |-> ret, locals |-> loc]

\* The first articleids entry with idtype == "pmc" gives pmcid = its .get("value").
PmcidOf(kind, pmid) ==
  CASE kind = "pmc" -> "PMC" \o pmid
    [] kind = "pmc_empty" -> ""
    [] OTHER -> None

\* The item search_pubmed builds from a summary record.
Item(pmid, kind) ==
  [pmid |-> pmid, pmcid |-> PmcidOf(kind, pmid),
   full_text_available |-> PmcidOf(kind, pmid) /= None]

RECURSIVE ItemsKeepingMissing(_, _)
ItemsKeepingMissing(pmids, body) ==
  IF pmids = <<>> \/ ~body.has_result THEN <<>>
  ELSE <<Item(Head(pmids), body.records[Head(pmids)])>>
         \o ItemsKeepingMissing(Tail(pmids), body)

\* for pmid in pmids: if pmid in summary_data["result"]: ... items.append(item)
RECURSIVE SearchItems(_, _)
SearchItems(pmids, body) ==
  IF pmids = <<>> \/ ~body.has_result THEN <<>>
  ELSE (IF body.records[Head(pmids)] /= "missing"
        THEN <<Item(Head(pmids), body.records[Head(pmids)])>>
        ELSE <<>>) \o SearchItems(Tail(pmids), body)

\* What search_pubmed returns.
SearchReturn(count, items, retmax) ==
  Returned([count |-> count, items |-> items, retmax |-> retmax, retstart |-> 0])

SearchAfterEsearchAlwaysSummary(out, loc) ==
  IF out.kind = "raise" THEN Done(out, loc)
  ELSE LET body == out.value.body IN
    IF body.fmt = "malformed" THEN Done(Raised("JSONDecodeError", "json", 0), loc)
    ELSE IF ~body.has_result
      THEN Done(Raised("PubMedAPIError", "Invalid response from esearch", 0), loc)
    ELSE IF body.count /= "absent" /\ ~IsDecimal(body.count)
      THEN Done(Raised("ValueError", "invalid literal for int()", 0), loc)
    ELSE LET count == IF body.count = "absent" THEN 0 ELSE IntOf(body.count)
             got == [loc EXCEPT !.pmids = body.idlist, !.count = count]
         IN CallNext(Request("esummary", "GET",
                             [db |-> "pubmed", id |-> body.idlist]), got)

\* search_pubmed after the esearch call: the exception of _make_request passes
\* through; else .json(), "esearchresult", idlist, int(count), and the summary call
\* when the identifier list is not empty.
SearchAfterEsearch(out, loc) ==
  IF out.kind = "raise" THEN Done(out, loc)
  ELSE LET body == out.value.body IN
    IF body.fmt = "malformed" THEN Done(Raised("JSONDecodeError", "json", 0), loc)
    ELSE IF ~body.has_result
      THEN Done(Raised("PubMedAPIError", "Invalid response from esearch", 0), loc)
    ELSE IF body.count /= "absent" /\ ~IsDecimal(body.count)
      THEN Done(Raised("ValueError", "invalid literal for int()", 0), loc)
    ELSE LET count == IF body.count = "absent" THEN 0 ELSE IntOf(body.count)
             got == [loc EXCEPT !.pmids = body.idlist, !.count = count]
         IN IF body.idlist = <<>>
            THEN Done(SearchReturn(count, <<>>, loc.retmax), got)
            ELSE CallNext(Request("esummary", "GET",
                                  [db |-> "pubmed", id |-> body.idlist]), got)

\* search_pubmed after the esummary call.
SearchAfterEsummary(out, loc) ==
  IF out.kind = "raise" THEN Done(out, loc)
  ELSE LET body == out.value.body IN
    IF body.fmt = "malformed" THEN Done(Raised("JSONDecodeError", "json", 0), loc)
    ELSE Done(SearchReturn(loc.count, SearchItems(loc.pmids, body), loc.retmax), loc)

\* if item.get('pmcid'): pmcid and full_text_available = True, else False
McpItem(item) ==
  LET has == item.pmcid /= None /\ item.pmcid /= "" IN
  [id |-> item.pmid, pmcid |-> IF has THEN item.pmcid ELSE Absent,
   full_text_available |-> has]

\* The search tool around search_pubmed: {"results": [...]}, or
\* except Exception as e: raise ValueError(f"Search failed: {str(e)}")
SearchToolReturn(ret) ==
  IF ret.kind = "raise" THEN Raised("ValueError", "Search failed", 0)
  ELSE Returned([results |-> [i \in DOMAIN ret.value.items |-> McpItem(ret.value.items[i])]])

\* search(query, retmax, sort) up to its first suspension point.
ToolSearch(c) ==
  /\ pc[c] = "idle"
  /\ \E query \in Queries, retmax \in RetmaxInputs, sort \in SortInputs :
       /\ tool' = [tool EXCEPT ![c] = "search"]
       /\ args' = [args EXCEPT ![c] = [tag |-> "search", query |-> query,
                                       retmax |-> retmax, sort |-> sort]]
       /\ IF IsBlank(query)
          THEN /\ result' = [result EXCEPT ![c] = Returned([results |-> <<>>])]
               /\ call' = [call EXCEPT ![c] = NoCall]
               /\ resp' = [resp EXCEPT ![c] = NoResp]
               /\ locals' = [locals EXCEPT ![c] = NoLocals]
               /\ UNCHANGED <<limiterVars, pc, timer>>
          ELSE IF ~ValidSort(sort)
          THEN /\ result' = [result EXCEPT ![c] =
                               Raised("ValueError", "Invalid sort parameter", 0)]
               /\ call' = [call EXCEPT ![c] = NoCall]
               /\ resp' = [resp EXCEPT ![c] = NoResp]
               /\ locals' = [locals EXCEPT ![c] = NoLocals]
               /\ UNCHANGED <<limiterVars, pc, timer>>
          ELSE /\ result' = [result EXCEPT ![c] = NoResult]
               /\ locals' = [locals EXCEPT ![c] =
                    [tag |-> "search",
                     retmax |-> Clamp(retmax, SearchRetmaxMin, SearchRetmaxMax),
                     pmids |-> <<>>, count |-> 0, ret |-> NoResult]]
               /\ MakeRequest(c, Request("esearch", "GET",
                    [db |-> "pubmed", term |-> query, sort |-> sort,
                     retmax |-> Clamp(retmax, SearchRetmaxMin, SearchRetmaxMax)]))

\* The search tool resumes with the outcome of its gateway call.
SearchContinue(c) ==
  /\ pc[c] = "responded"
  /\ tool[c] = "search"
  /\ Outcome(resp[c]).kind /= "retry"
  /\ LET step == IF call[c].endpoint = "esearch"
                 THEN SearchAfterEsearch(Outcome(resp[c]), locals[c])
                 ELSE SearchAfterEsummary(Outcome(resp[c]), locals[c])
     IN IF step.next = "call"
        THEN /\ locals' = [locals EXCEPT ![c] = step.locals]
             /\ MakeRequest(c, step.req)
             /\ UNCHANGED <<tool, args, result>>
        ELSE /\ locals' = [locals EXCEPT ![c] = [step.locals EXCEPT !.ret = step.ret]]
             /\ result' = [result EXCEPT ![c] = SearchToolReturn(step.ret)]
             /\ pc' = [pc EXCEPT ![c] = "idle"]
             /\ UNCHANGED <<limiterVars, timer, call, resp, tool, args>>

(* =================== the find_similar_articles tool ==================== *)
UpperCase == <<"A", "B", "C", "D", "E", "F", "G", "H", "I", "J", "K", "L", "M",
               "N", "O", "P", "Q", "R", "S", "T", "U", "V", "W", "X", "Y", "Z">>
LowerCase == <<"a", "b", "c", "d", "e", "f", "g", "h", "i", "j", "k", "l", "m",
               "n", "o", "p", "q", "r", "s", "t", "u", "v", "w", "x", "y", "z">>
Digits == {"0", "1", "2", "3", "4", "5", "6", "7", "8", "9"}

\* str.lower()
LowerChar(ch) ==
  IF \E i \in DOMAIN UpperCase : UpperCase[i] = ch
  THEN LowerCase[CHOOSE i \in DOMAIN UpperCase : UpperCase[i] = ch]
  ELSE ch
Lower(w) == [i \in DOMAIN w |-> LowerChar(w[i])]

\* str.isdigit()
IsDigit(w) == w /= <<>> /\ \A i \in DOMAIN w : w[i] \in Digits

\* word.strip('.,;:()[]{}')
Punctuation == {".", ",", ";", ":", "(", ")", "[", "]", "{", "}"}
StripPunctuation(w) == RStrip(LStrip(w, Punctuation), Punctuation)

StopList ==
  {<<"t", "h", "e">>,
   <<"a", "n", "d">>,
   <<"f", "o", "r">>,
   <<"w", "i", "t", "h">>,
   <<"f", "r", "o", "m">>,
   <<"t", "h", "a", "t">>,
   <<"t", "h", "i", "s">>,
   <<"s", "t", "u", "d", "y">>,
   <<"a", "n", "a", "l", "y", "s", "i", "s">>}

\* The first n elements: list[:n]
Prefix(l, n) == SubSeq(l, 1, Min(n, Len(l)))

\* mesh_terms: the DescriptorName text of every MeshHeading that has one.
MeshTerms(mesh) ==
  LET HasDescriptor(h) == h /= NoDescriptor IN SelectSeq(mesh, HasDescriptor)

TitleWordsUnfiltered(words) ==
  LET Kept(w) == Len(w) > MinWordLen
      kept == SelectSeq(words, Kept)
  IN [i \in DOMAIN kept |-> Lower(StripPunctuation(kept[i]))]

\* [word.strip('.,;:()[]{}').lower() for word in title.split()
\*  if len(word) > 3 and word.lower() not in [stop list]]
TitleWords(words) ==
  LET Kept(w) == Len(w) > MinWordLen /\ Lower(w) \notin StopList
      kept == SelectSeq(words, Kept)
  IN [i \in DOMAIN kept |-> Lower(StripPunctuation(kept[i]))]

Clause(text, field) == [kind |-> "clause", text |-> text, field |-> field]
Operator(op) == [kind |-> op, text |-> <<>>, field |-> ""]

\* search_terms: '"{mesh_term}"[MeSH Terms]' for mesh_terms[:3], then
\* '"{word}"[Title/Abstract]' for title_words[:2] when the title is not empty.
SearchTerms(doc) ==
  LET mesh == Prefix(MeshTerms(doc.mesh), MaxMeshTerms)
      words == IF doc.title.truthy
               THEN Prefix(TitleWords(doc.title.words), MaxTitleWords) ELSE <<>>
  IN [i \in DOMAIN mesh |-> Clause(mesh[i], "MeSH Terms")]
       \o [i \in DOMAIN words |-> Clause(words[i], "Title/Abstract")]

\* " OR ".join(search_terms)
RECURSIVE JoinOr(_)
JoinOr(terms) ==
  IF Len(terms) <= 1 THEN terms
  ELSE <<Head(terms), Operator("OR")>> \o JoinOr(Tail(terms))

SimilarityQueryUnexcluded(terms, pmid) == JoinOr(terms)

\* search_query = " OR ".join(search_terms) + f" NOT {pmid}[PMID]", as its tokens
SimilarityQuery(terms, pmid) ==
  JoinOr(terms) \o <<Operator("NOT"), Clause(pmid, "PMID")>>

\* The dictionary find_similar_articles returns.
SimilarDict(ref, articles, error) ==
  [reference_pmid |-> ref, similar_articles |-> articles,
   count |-> Len(articles), error |-> error]

SimilarOnExceptionReraised(pmid, e) == e

\* except Exception as e: return {..., "similar_articles": [], "count": 0, "error": str(e)}
SimilarOnException(pmid, e) == Returned(SimilarDict(pmid, <<>>, e.msg))

\* An early return of find_similar_articles with an explanatory error.
SimilarError(pmid, msg) == Returned(SimilarDict(pmid, <<>>, msg))

\* find_similar_articles after the efetch call: ET.fromstring, MeSH terms and
\* title, the derived query and the esearch call.
SimilarAfterEfetch(out, loc) ==
  IF out.kind = "raise" THEN Done(SimilarOnException(loc.pmid, out), loc)
  ELSE LET doc == out.value.body IN
    IF doc.fmt = "malformed"
      THEN Done(SimilarOnException(loc.pmid, Raised("ParseError", "xml", 0)), loc)
    ELSE IF MeshTerms(doc.mesh) = <<>> /\ ~doc.title.truthy
      THEN Done(SimilarError(loc.pmid,
                             "Could not extract metadata for similarity search"), loc)
    ELSE IF SearchTerms(doc) = <<>>
      THEN Done(SimilarError(loc.pmid, "Could not build similarity search query"), loc)
    ELSE CallNext(Request("esearch", "GET",
                          [db |-> "pubmed", sort |-> "relevance", retmax |-> loc.retmax,
                           term |-> SimilarityQuery(SearchTerms(doc), loc.pmid)]), loc)

\* find_similar_articles after the esearch call.
SimilarAfterEsearch(out, loc) ==
  IF out.kind = "raise" THEN Done(SimilarOnException(loc.pmid, out), loc)
  ELSE LET body == out.value.body IN
    IF body.fmt = "malformed"
      THEN Done(SimilarOnException(loc.pmid, Raised("JSONDecodeError", "json", 0)), loc)
    ELSE IF ~body.has_result
      THEN Done(SimilarError(loc.pmid, "Invalid search response"), loc)
    ELSE IF body.idlist = <<>>
      THEN Done(SimilarError(loc.pmid, "No similar articles found"), loc)
    ELSE CallNext(Request("esummary", "GET", [db |-> "pubmed", id |-> body.idlist]),
                  [loc EXCEPT !.pmids = body.idlist])

\* for pmid_id in similar_pmids: if pmid_id in summary_data["result"]: ...
SimilarItems(pmids, body) == SearchItems(pmids, body)

\* find_similar_articles after the esummary call.
SimilarAfterEsummary(out, loc) ==
  IF out.kind = "raise" THEN Done(SimilarOnException(loc.pmid, out), loc)
  ELSE LET body == out.value.body IN
    IF body.fmt = "malformed"
      THEN Done(SimilarOnException(loc.pmid, Raised("JSONDecodeError", "json", 0)), loc)
    ELSE Done(Returned(SimilarDict(loc.pmid, SimilarItems(loc.pmids, body), None)), loc)

\* The tool around the client's method: its result, or
\* except Exception as e: return {..., "similar_articles": [], "count": 0, "error": str(e)}
SimilarToolReturn(pmid, ret) ==
  IF ret.kind = "raise" THEN Returned(SimilarDict(pmid, <<>>, ret.msg)) ELSE ret

SeedInputs == {<<>>, <<" ">>, <<"4", "2">>, <<" ", "4", "2", " ">>, <<"P", "M", "4">>}
SimilarRetmaxInputs == {0, 20, 101}

\* find_similar_articles(pmid, retmax) up to its first suspension point.
ToolFindSimilar(c) ==
  /\ pc[c] = "idle"
  /\ \E pmid \in SeedInputs, retmax \in SimilarRetmaxInputs :
       /\ tool' = [tool EXCEPT ![c] = "find_similar"]
       /\ args' = [args EXCEPT ![c] = [tag |-> "find_similar", pmid |-> pmid,
                                       retmax |-> retmax]]
       /\ IF IsBlank(pmid) \/ ~IsDigit(Strip(pmid))
          THEN /\ result' = [result EXCEPT ![c] =
                    IF IsBlank(pmid)
                    THEN Returned(SimilarDict(None, <<>>, "No PMID provided"))
                    ELSE Returned(SimilarDict(Strip(pmid), <<>>, "Invalid PMID format. PMID should be a numeric string."))]
               /\ call' = [call EXCEPT ![c] = NoCall]
               /\ resp' = [resp EXCEPT ![c] = NoResp]
               /\ locals' = [locals EXCEPT ![c] = NoLocals]
               /\ UNCHANGED <<limiterVars, pc, timer>>
          ELSE /\ result' = [result EXCEPT ![c] = NoResult]
               /\ locals' = [locals EXCEPT ![c] =
                    [tag |-> "find_similar", pmid |-> Strip(pmid),
                     retmax |-> Clamp(retmax, SimilarRetmaxMin, SimilarRetmaxMax),
                     pmids |-> <<>>, ret |-> NoResult]]
               /\ MakeRequest(c, Request("efetch", "POST",
                    [db |-> "pubmed", id |-> Strip(pmid), rettype |-> "abstract"]))

\* find_similar_articles resumes with the outcome of its gateway call.
SimilarContinue(c) ==
  /\ pc[c] = "responded"
  /\ tool[c] = "find_similar"
  /\ Outcome(resp[c]).kind /= "retry"
  /\ LET step == CASE call[c].endpoint = "efetch" ->
                        SimilarAfterEfetch(Outcome(resp[c]), locals[c])
                   [] call[c].endpoint = "esearch" ->
                        SimilarAfterEsearch(Outcome(resp[c]), locals[c])
                   [] OTHER -> SimilarAfterEsummary(Outcome(resp[c]), locals[c])
     IN IF step.next = "call"
        THEN /\ locals' = [locals EXCEPT ![c] = step.locals]
             /\ MakeRequest(c, step.req)
             /\ UNCHANGED <<tool, args, result>>
        ELSE /\ locals' = [locals EXCEPT ![c] = [step.locals EXCEPT !.ret = step.ret]]
             /\ result' = [result EXCEPT ![c] = SimilarToolReturn(locals[c].pmid, step.ret)]
             /\ pc' = [pc EXCEPT ![c] = "idle"]
             /\ UNCHANGED <<limiterVars, timer, call, resp, tool, args>>

(* ========================= the get_full_text tool ====================== *)
\* sep.join(parts)
RECURSIVE Join(_, _)
Join(parts, sep) ==
  IF parts = <<>> THEN <<>>
  ELSE IF Len(parts) = 1 THEN parts[1]
  ELSE parts[1] \o sep \o Join(Tail(parts), sep)

\* extract_text_from_element: the texts and tails, stripped, the empty ones dropped
ExtractText(texts) ==
  LET NotEmpty(t) == t /= <<>>
  IN SelectSeq([i \in DOMAIN texts |-> Strip(texts[i])], NotEmpty)

\* for p in paragraphs: p_text = extract_text_from_element(p);
\*   if p_text: parts.append(" ".join(p_text))
ParagraphTexts(paras) ==
  LET NotEmpty(t) == t /= <<>>
      kept == SelectSeq([i \in DOMAIN paras |-> ExtractText(paras[i])], NotEmpty)
  IN [i \in DOMAIN kept |-> Join(kept[i], <<" ">>)]

\* sec.findall('.//sec'): the sections under a section, in document order
RECURSIVE DescendantsOfAll(_)
DescendantsOfAll(secs) ==
  IF secs = <<>> THEN <<>>
  ELSE <<Head(secs)>> \o DescendantsOfAll(Head(secs).subs)
         \o DescendantsOfAll(Tail(secs))

SubsectionMarkerPlain(title) == Strip(title.text) \o <<":">>

\* f"\n{subsec_title.text.strip()}:"
SubsectionMarker(title) == <<"\n">> \o Strip(title.text) \o <<":">>

\* What a nested section adds to the text parts of its top-level section.
SubsectionParts(sub) ==
  (IF sub.title.present /\ sub.title.text /= <<>>
   THEN <<SubsectionMarker(sub.title)>> ELSE <<>>) \o ParagraphTexts(sub.paras)

RECURSIVE Flatten(_)
Flatten(lists) == IF lists = <<>> THEN <<>> ELSE Head(lists) \o Flatten(Tail(lists))

\* section_text_parts of a direct child section of the body
SectionParts(sec) ==
  LET subs == DescendantsOfAll(sec.subs)
  IN ParagraphTexts(sec.paras) \o Flatten([i \in DOMAIN subs |-> SubsectionParts(subs[i])])

UntitledSection == <<"U", "n", "t", "i", "t", "l", "e", "d", " ", "S", "e", "c", "t", "i", "o", "n">>

\* title_elem.text.strip() if title_elem is not None and title_elem.text else ...
SectionTitle(sec) ==
  IF sec.title.present /\ sec.title.text /= <<>>
  THEN Strip(sec.title.text) ELSE UntitledSection

\* section_text = "\n\n".join(section_text_parts)
SectionText(sec) == Join(SectionParts(sec), <<"\n", "\n">>)

\* sections: the direct child sections of the body that have text
Sections(body) ==
  LET HasText(sec) == SectionText(sec) /= <<>>
      kept == SelectSeq(body, HasText)
  IN [i \in DOMAIN kept |-> [title |-> SectionTitle(kept[i]), text |-> SectionText(kept[i])]]

\* The texts under a list of sections, in document order: title, paragraphs,
\* nested sections.
RECURSIVE TextsOfAll(_)
TextsOfAll(secs) ==
  IF secs = <<>> THEN <<>>
  ELSE (IF Head(secs).title.present THEN <<Head(secs).title.text>> ELSE <<>>)
         \o Flatten(Head(secs).paras)
         \o TextsOfAll(Head(secs).subs)
         \o TextsOfAll(Tail(secs))

\* full_body_text = " ".join(extract_text_from_element(body))
BodyText(body) == Join(ExtractText(TextsOfAll(body)), <<" ">>)

ParsedBody(body_text, sections, error) ==
  [body_text |-> body_text, sections |-> sections, error |-> error]

NoBodyFoundSilent == ParsedBody(None, <<>>, None)

\* if body is None: return {"body_text": None, "sections": [], "error": "No body ..."}
NoBodyFound == ParsedBody(None, <<>>, "No body element found in JATS XML")

\* _parse_jats_body(jats_xml)
ParseJatsBody(doc) ==
  CASE doc.fmt \in {"empty", "restricted"} ->
         ParsedBody(None, <<>>, "Full text not available due to publisher restrictions")
    [] doc.fmt = "malformed" -> ParsedBody(None, <<>>, "XML parsing error")
    [] doc.fmt = "jats" /\ ~doc.has_body -> NoBodyFound
    [] OTHER -> ParsedBody(BodyText(doc.body), Sections(doc.body), None)

\* The dictionaries get_full_text returns.
FullTextError(pmcid, parsing_error, error) ==
  Returned([pmcid |-> pmcid, sections |-> <<>>, parsing_error |-> parsing_error,
            pdf_url |-> None, status |-> "error", error |-> error])
FullTextSuccess(loc, pdf_url) ==
  Returned([pmcid |-> loc.pmcid, sections |-> loc.parsed.sections,
            parsing_error |-> loc.parsed.error, pdf_url |-> pdf_url,
            status |-> "success"])

\* The pdf link of the open-access answer: xmltodict.parse, then the walk over
\* OA / records / record / link, which raises where a level is not a dictionary.
PdfLink(body) ==
  CASE body.fmt = "malformed" -> Raised("ExpatError", "xml", 0)
    [] body.shape = "oa_empty" -> Raised("TypeError", "argument of type 'NoneType'", 0)
    [] body.shape \in {"records_empty", "record_list"} ->
         Raised("AttributeError", "object has no attribute 'get'", 0)
    [] body.shape \in {"link_pdf", "links_tgz_pdf"} -> Returned(PdfHref)
    [] OTHER -> Returned(None)

\* str.startswith(prefix)
StartsWith(text, prefix) ==
  Len(text) >= Len(prefix) /\ SubSeq(text, 1, Len(prefix)) = prefix

\* str.replace(old, "")
RECURSIVE RemoveAll(_, _)
RemoveAll(text, old) ==
  IF Len(text) < Len(old) THEN text
  ELSE IF SubSeq(text, 1, Len(old)) = old
       THEN RemoveAll(SubSeq(text, Len(old) + 1, Len(text)), old)
       ELSE <<Head(text)>> \o RemoveAll(Tail(text), old)

\* full_pmcid = "PMC" + (pmcid.replace("PMC", "") if pmcid.startswith("PMC") else pmcid)
PMC == <<"P", "M", "C">>
FullPmcid(pmcid) ==
  PMC \o (IF StartsWith(pmcid, PMC) THEN RemoveAll(pmcid, PMC) ELSE pmcid)

\* except Exception as e (the outer one): the error dictionary
FullTextOnException(pmcid, e) == FullTextError(pmcid, None, e.msg)

OnOaExceptionPropagated(loc, e) == Done(FullTextOnException(loc.pmcid, e), loc)

\* except Exception as e: logger.warning(...), and the function goes on
OnOaException(loc, e) == Done(FullTextSuccess(loc, None), loc)

FullTextAfterEfetchUnguarded(out, loc) ==
  IF out.kind = "raise"
  THEN CallNext(Request("oa", "GET", [db |-> "pmc", id |-> loc.pmcid]), loc)
  ELSE CallNext(Request("oa", "GET", [db |-> "pmc", id |-> loc.pmcid]),
                [loc EXCEPT !.fetched = TRUE, !.jats = out.value.body,
                            !.parsed = ParseJatsBody(out.value.body)])

\* get_full_text after the efetch call: _parse_jats_body, then the OA call.
FullTextAfterEfetch(out, loc) ==
  IF out.kind = "raise" THEN Done(FullTextOnException(loc.pmcid, out), loc)
  ELSE CallNext(Request("oa", "GET", [db |-> "pmc", id |-> loc.pmcid]),
                [loc EXCEPT !.fetched = TRUE, !.jats = out.value.body,
                            !.parsed = ParseJatsBody(out.value.body)])

\* get_full_text after the OA call.
FullTextAfterOa(out, loc) ==
  LET link == IF out.kind = "raise" THEN out ELSE PdfLink(out.value.body)
  IN IF link.kind = "raise" THEN OnOaException(loc, link)
     ELSE Done(FullTextSuccess(loc, link.value), loc)

\* The tool around the client's method: its result, or the error dictionary.
FullTextToolReturn(pmcid, ret) ==
  IF ret.kind = "raise" THEN FullTextError(pmcid, None, ret.msg) ELSE ret

PmcidInputs == {<<>>, <<" ">>, <<"P", "M", "C", "7">>, <<" ", "7">>}

\* get_full_text(pmcid) up to its first suspension point.
ToolFullText(c) ==
  /\ pc[c] = "idle"
  /\ \E pmcid \in PmcidInputs :
       /\ tool' = [tool EXCEPT ![c] = "get_full_text"]
       /\ args' = [args EXCEPT ![c] = [tag |-> "get_full_text", pmcid |-> pmcid]]
       /\ IF pmcid = <<>> \/ Strip(pmcid) = <<>>
          THEN /\ result' = [result EXCEPT ![c] =
                    IF pmcid = <<>>
                    THEN FullTextError(None, "No PMCID provided", "No PMCID provided")
                    ELSE FullTextError(None, None, "No PMCID provided")]
               /\ call' = [call EXCEPT ![c] = NoCall]
               /\ resp' = [resp EXCEPT ![c] = NoResp]
               /\ locals' = [locals EXCEPT ![c] = NoLocals]
               /\ UNCHANGED <<limiterVars, pc, timer>>
          ELSE /\ result' = [result EXCEPT ![c] = NoResult]
               /\ locals' = [locals EXCEPT ![c] =
                    [tag |-> "get_full_text", pmcid |-> FullPmcid(Strip(pmcid)),
                     fetched |-> FALSE, jats |-> NoBody,
                     parsed |-> ParsedBody(None, <<>>, None), ret |-> NoResult]]
               /\ MakeRequest(c, Request("efetch.pmc", "POST",
                    [db |-> "pmc", id |-> FullPmcid(Strip(pmcid))]))

\* get_full_text resumes with the outcome of its gateway call.
FullTextContinue(c) ==
  /\ pc[c] = "responded"
  /\ tool[c] = "get_full_text"
  /\ Outcome(resp[c]).kind /= "retry"
  /\ LET step == IF call[c].endpoint = "efetch.pmc"
                 THEN FullTextAfterEfetch(Outcome(resp[c]), locals[c])
                 ELSE FullTextAfterOa(Outcome(resp[c]), locals[c])
     IN IF step.next = "call"
        THEN /\ locals' = [locals EXCEPT ![c] = step.locals]
             /\ MakeRequest(c, step.req)
             /\ UNCHANGED <<tool, args, result>>
        ELSE /\ locals' = [locals EXCEPT ![c] = [step.locals EXCEPT !.ret = step.ret]]
             /\ result' = [result EXCEPT ![c] =
                             FullTextToolReturn(Strip(args[c].pmcid), step.ret)]
             /\ pc' = [pc EXCEPT ![c] = "idle"]
             /\ UNCHANGED <<limiterVars, timer, call, resp, tool, args>>

(* ===================== the get_citation_counts tool ==================== *)
DigitChars == <<"0", "1", "2", "3", "4", "5", "6", "7", "8", "9">>

\* str(n)
RECURSIVE DecimalOf(_)
DecimalOf(n) ==
  IF n < 10 THEN <<DigitChars[n + 1]>>
  ELSE DecimalOf(n \div 10) \o <<DigitChars[(n % 10) + 1]>>

\* The identifiers "1", "2", ..., str(n)
PmidRange(n) == [i \in 1..n |-> DecimalOf(i)]

\* pmids: nothing, a blank identifier, one identifier twice (once padded), a few
\* identifiers, and lists longer than the service's batch.
CitationInputs ==
  {<<>>, <<<<" ">>>>, <<<<"7">>, <<" ", "7">>>>}
    \cup {PmidRange(n) : n \in 1..MaxIds}
    \cup {PmidRange(ICiteBatchMax + 1), PmidRange(ICiteBatchMax + Excess)}

Reverse(l) == [i \in DOMAIN l |-> l[Len(l) + 1 - i]]

\* list(set(str(pmid).strip() for pmid in pmids if str(pmid).strip())): the
\* stripped identifiers that are not empty, once each, in an order the set
\* chooses: the order of the input or its reverse when nothing is dropped, any
\* order of what is left otherwise.
UniqueOrders(pmids) ==
  LET ids == {Strip(pmids[i]) : i \in DOMAIN pmids} \ {<<>>}
      n == Cardinality(ids)
  IN IF n = Len(pmids)
     THEN {[i \in DOMAIN pmids |-> Strip(pmids[i])],
           Reverse([i \in DOMAIN pmids |-> Strip(pmids[i])])}
     ELSE {l \in [1..n -> ids] : \A i, j \in 1..n : l[i] = l[j] => i = j}

\* The calls of the tool: pmids and a unique_pmids made of it.
CitationCalls ==
  UNION {{[pmids |-> l, unique |-> u] : u \in UniqueOrders(l)} : l \in CitationInputs}

\* The calls with a list within the service's batch.
ShortCitationCalls == {in \in CitationCalls : Len(in.pmids) <= ICiteBatchMax}

\* The calls a client makes: any of them as its first call of a tool, the short
\* ones afterwards (get_citation_counts reads nothing that earlier calls left).
CitationCallsOf(c) == IF tool[c] = "none" THEN CitationCalls ELSE ShortCitationCalls

\* item.get("citation_count"): the JSON number, as its decimal text, or null
CitedTimes == "26"

\* The iCite answer to pmids=...: text that is not JSON, JSON without "data", or
\* "data" with an item for every identifier sent (with or without a count), for
\* all but the first, for the first only, or for none.
ICiteItem(pmid, count) == [pmid |-> pmid, citation_count |-> count]
ICiteData(sent) ==
  {[i \in DOMAIN sent |-> ICiteItem(sent[i], CitedTimes)],
   [i \in DOMAIN sent |-> ICiteItem(sent[i], None)],
   [i \in 1..(Len(sent) - 1) |-> ICiteItem(sent[i + 1], CitedTimes)],
   [i \in 1..1 |-> ICiteItem(sent[i], CitedTimes)],
   <<>>}
ICiteBodies(sent) ==
  {Malformed, [fmt |-> "icite", has_data |-> FALSE, data |-> <<>>]}
    \cup {[fmt |-> "icite", has_data |-> TRUE, data |-> d] : d \in ICiteData(sent)}
ICiteResponses(sent) ==
  {TransportError}
    \cup {HttpResponse(st, "absent", NoBody) : st \in ErrorStatuses \cup {429}}
    \cup {HttpResponse(200, "absent", b) : b \in ICiteBodies(sent)}

\* result = {"pmid": pmid, "citation_count": count}, with the note when count is None
CitationRecord(item) ==
  IF item.citation_count /= None
  THEN [pmid |-> item.pmid, citation_count |-> item.citation_count]
  ELSE [pmid |-> item.pmid, citation_count |-> None,
        note |-> "Citation data not available"]

\* for item in data.get("data", []): results.append(result)
CitationRecords(body) ==
  IF body.has_data THEN [i \in DOMAIN body.data |-> CitationRecord(body.data[i])]
  ELSE <<>>

CitationErrorsForSent(pmids, sent, msg) ==
  Returned([i \in DOMAIN sent |->
              [pmid |-> sent[i], citation_count |-> None, error |-> msg]])

\* return [{"pmid": pmid, "citation_count": None, "error": ...} for pmid in pmids]
CitationErrors(pmids, sent, msg) ==
  Returned([i \in DOMAIN pmids |->
              [pmid |-> pmids[i], citation_count |-> None, error |-> msg]])

\* get_citation_counts after its call of the counting service:
\* raise_for_status(), .json(), the records; the two except branches.
CitationsAfterCall(r, pmids, sent) ==
  IF r.kind = "request_error" THEN CitationErrors(pmids, sent, "transport")
  ELSE IF ~(r.status >= 200 /\ r.status < 300)
    THEN CitationErrors(pmids, sent, "HTTP error")
  ELSE IF r.body.fmt = "malformed" THEN CitationErrors(pmids, sent, "json")
  ELSE Returned(CitationRecords(r.body))

\* The tool around the client's method: {"items": results}, or ValueError.
CitationsToolReturn(ret) ==
  IF ret.kind = "raise" THEN Raised("ValueError", "Citation count retrieval failed", 0)
  ELSE Returned([items |-> ret.value])

ToolCitationsThrottled(c, calls) ==
  /\ pc[c] = "idle"
  /\ \E in \in calls :
       /\ tool' = [tool EXCEPT ![c] = "get_citation_counts"]
       /\ args' = [args EXCEPT ![c] = [tag |-> "get_citation_counts",
                                       pmids |-> in.pmids]]
       /\ IF in.unique = <<>>
          THEN /\ result' = [result EXCEPT ![c] = Returned([items |-> <<>>])]
               /\ call' = [call EXCEPT ![c] = NoCall]
               /\ resp' = [resp EXCEPT ![c] = NoResp]
               /\ locals' = [locals EXCEPT ![c] = NoLocals]
               /\ UNCHANGED <<limiterVars, pc, timer>>
          ELSE /\ result' = [result EXCEPT ![c] = NoResult]
               /\ locals' = [locals EXCEPT ![c] =
                    [tag |-> "get_citation_counts", pmids |-> in.unique,
                     ret |-> NoResult]]
               /\ MakeRequest(c, Request("icite", "GET",
                    [db |-> "icite", pmids |-> Prefix(in.unique, ICiteBatchMax)]))

\* get_citation_counts(pmids), for one of the given calls, up to its suspension
\* point: the request goes to the counting service directly, not through
\* _make_request.
ToolCitationsFrom(c, calls) ==
  /\ pc[c] = "idle"
  /\ \E in \in calls :
       /\ tool' = [tool EXCEPT ![c] = "get_citation_counts"]
       /\ args' = [args EXCEPT ![c] = [tag |-> "get_citation_counts",
                                       pmids |-> in.pmids]]
       /\ resp' = [resp EXCEPT ![c] = NoResp]
       /\ IF in.unique = <<>>
          THEN /\ result' = [result EXCEPT ![c] = Returned([items |-> <<>>])]
               /\ call' = [call EXCEPT ![c] = NoCall]
               /\ locals' = [locals EXCEPT ![c] = NoLocals]
               /\ UNCHANGED <<limiterVars, pc, timer>>
          ELSE /\ result' = [result EXCEPT ![c] = NoResult]
               /\ locals' = [locals EXCEPT ![c] =
                    [tag |-> "get_citation_counts", pmids |-> in.unique,
                     ret |-> NoResult]]
               /\ call' = [call EXCEPT ![c] =
                    Request("icite", "GET",
                            [db |-> "icite", pmids |-> Prefix(in.unique, ICiteBatchMax)])]
               /\ pc' = [pc EXCEPT ![c] = "icite_wait"]
               /\ UNCHANGED <<limiterVars, timer>>

\* get_citation_counts called by a client of all the tools.
ToolCitations(c) == ToolCitationsFrom(c, CitationCallsOf(c))

\* The counting service answers (or the transport fails) and get_citation_counts
\* runs to its end.
CitationsContinue(c) ==
  /\ pc[c] = "icite_wait"
  /\ \E r \in ICiteResponses(call[c].params.pmids) :
       LET ret == CitationsAfterCall(r, locals[c].pmids, call[c].params.pmids) IN
       /\ resp' = [resp EXCEPT ![c] = r]
       /\ locals' = [locals EXCEPT ![c].ret = ret]
       /\ result' = [result EXCEPT ![c] = CitationsToolReturn(ret)]
       /\ pc' = [pc EXCEPT ![c] = "idle"]
       /\ UNCHANGED <<limiterVars, timer, call, tool, args>>

(* ==================== the fetch and fetch_batch tools ================== *)
AuthorNamesOfEither(authors) ==
  LET Named(a) == a.forename.present \/ a.lastname.present
      kept == SelectSeq(authors, Named)
  IN [i \in DOMAIN kept |-> kept[i].forename.text \o " " \o kept[i].lastname.text]

\* for author_elem in ...: if forename is not None and lastname is not None:
\*   authors.append(f"{forename.text} {lastname.text}")
AuthorNames(authors) ==
  LET Named(a) == a.forename.present /\ a.lastname.present
      kept == SelectSeq(authors, Named)
  IN [i \in DOMAIN kept |-> kept[i].forename.text \o " " \o kept[i].lastname.text]

\* The item get_abstracts builds from a <PubmedArticle>.
AbstractItem(article) == [pmid |-> article.pmid, authors |-> AuthorNames(article.authors)]

AbstractsAfterEfetchKeepingAll(out) ==
  IF out.kind = "raise" THEN out
  ELSE LET body == out.value.body IN
    IF body.fmt = "malformed"
      THEN Raised("PubMedAPIError", "Failed to parse XML response", 0)
    ELSE Returned([i \in DOMAIN body.articles |-> AbstractItem(body.articles[i])])

\* get_abstracts after the efetch call: ET.fromstring and one item for every
\* <PubmedArticle> that has a PMID; ET.ParseError becomes PubMedAPIError.
AbstractsAfterEfetch(out) ==
  IF out.kind = "raise" THEN out
  ELSE LET body == out.value.body IN
    IF body.fmt = "malformed"
      THEN Raised("PubMedAPIError", "Failed to parse XML response", 0)
    ELSE LET HasPmid(a) == a.has_pmid
             kept == SelectSeq(body.articles, HasPmid)
         IN Returned([i \in DOMAIN kept |-> AbstractItem(kept[i])])

HasListSyntaxUnchecked(pmid) == FALSE

\* ',' in pmid or '[' in pmid or ']' in pmid
HasListSyntax(pmid) == \E i \in DOMAIN pmid : pmid[i] \in {",", "[", "]"}

\* The end of fetch: the document made of abstracts[0]; ValueError("No abstract
\* found ...") when there is none, raised inside the try and so re-raised by
\* except Exception as "Abstract retrieval failed: ...".
FetchDocument(pmid, abstracts) ==
  IF abstracts = <<>>
  THEN Raised("ValueError", "Abstract retrieval failed: No abstract found for PMID", 0)
  ELSE Returned([id |-> pmid, source |-> abstracts[1].pmid])

\* What the fetch tool makes of the outcome of get_abstracts([pmid]).
FetchToolReturn(pmid, ret) ==
  IF ret.kind = "raise"
  THEN Raised("ValueError", "Abstract retrieval failed: " \o ret.msg, 0)
  ELSE FetchDocument(pmid, ret.value)

\* What the fetch_batch tool makes of the outcome of get_abstracts(unique_pmids).
BatchToolReturn(ret) ==
  IF ret.kind = "raise"
  THEN Raised("ValueError", "Batch abstract retrieval failed: " \o ret.msg, 0)
  ELSE Returned([items |-> ret.value])

FetchInputs == {<<>>, <<" ">>, <<"4", "2">>, <<" ", "4", "2", " ">>, <<"4", ",", "2">>, <<"[", "4", "2", "]">>}

\* fetch(id) up to its first suspension point.
ToolFetch(c) ==
  /\ pc[c] = "idle"
  /\ \E id \in FetchInputs :
       /\ tool' = [tool EXCEPT ![c] = "fetch"]
       /\ args' = [args EXCEPT ![c] = [tag |-> "fetch", id |-> id]]
       /\ IF IsBlank(id) \/ HasListSyntax(Strip(id))
          THEN /\ result' = [result EXCEPT ![c] =
                    IF IsBlank(id)
                    THEN Raised("ValueError", "Single document ID is required", 0)
                    ELSE Raised("ValueError", "fetch tool accepts only a single PMID", 0)]
               /\ call' = [call EXCEPT ![c] = NoCall]
               /\ resp' = [resp EXCEPT ![c] = NoResp]
               /\ locals' = [locals EXCEPT ![c] = NoLocals]
               /\ UNCHANGED <<limiterVars, pc, timer>>
          ELSE /\ result' = [result EXCEPT ![c] = NoResult]
               /\ locals' = [locals EXCEPT ![c] =
                    [tag |-> "get_abstracts", pmids |-> <<Strip(id)>>, ret |-> NoResult]]
               /\ MakeRequest(c, Request("efetch.articles", "POST",
                    [db |-> "pubmed", id |-> <<Strip(id)>>, rettype |-> "abstract"]))

\* The calls of fetch_batch: pmids and a unique_pmids made of it.
BatchCalls == {in \in CitationCalls : Len(in.pmids) <= MaxIds}

\* fetch_batch(pmids) up to its first suspension point.
ToolFetchBatch(c) ==
  /\ pc[c] = "idle"
  /\ \E in \in BatchCalls :
       /\ tool' = [tool EXCEPT ![c] = "fetch_batch"]
       /\ args' = [args EXCEPT ![c] = [tag |-> "fetch_batch", pmids |-> in.pmids]]
       /\ IF in.unique = <<>>
          THEN /\ result' = [result EXCEPT ![c] = Returned([items |-> <<>>])]
               /\ call' = [call EXCEPT ![c] = NoCall]
               /\ resp' = [resp EXCEPT ![c] = NoResp]
               /\ locals' = [locals EXCEPT ![c] = NoLocals]
               /\ UNCHANGED <<limiterVars, pc, timer>>
          ELSE /\ result' = [result EXCEPT ![c] = NoResult]
               /\ locals' = [locals EXCEPT ![c] =
                    [tag |-> "get_abstracts", pmids |-> in.unique, ret |-> NoResult]]
               /\ MakeRequest(c, Request("efetch.articles", "POST",
                    [db |-> "pubmed", id |-> in.unique, rettype |-> "abstract"]))

\* get_abstracts resumes with the outcome of its gateway call, and the tool that
\* called it ends.
AbstractsContinue(c) ==
  /\ pc[c] = "responded"
  /\ tool[c] \in {"fetch", "fetch_batch"}
  /\ Outcome(resp[c]).kind /= "retry"
  /\ LET ret == AbstractsAfterEfetch(Outcome(resp[c])) IN
       /\ locals' = [locals EXCEPT ![c].ret = ret]
       /\ result' = [result EXCEPT ![c] =
            IF tool[c] = "fetch" THEN FetchToolReturn(locals[c].pmids[1], ret)
            ELSE BatchToolReturn(ret)]
       /\ pc' = [pc EXCEPT ![c] = "idle"]
       /\ UNCHANGED <<limiterVars, timer, call, resp, tool, args>>

(* ------------------------ one client of the tools ---------------------- *)
Client == CHOOSE c \in Callers : TRUE

ToolNext ==
  \/ Tick
  \/ ToolSearch(Client)
  \/ SearchContinue(Client)
  \/ ToolFindSimilar(Client)
  \/ SimilarContinue(Client)
  \/ ToolFullText(Client)
  \/ FullTextContinue(Client)
  \/ ToolCitations(Client)
  \/ CitationsContinue(Client)
  \/ ToolFetch(Client)
  \/ ToolFetchBatch(Client)
  \/ AbstractsContinue(Client)
  \/ GatewayStep(Client)

ToolSpec == Init /\ [][ToolNext]_vars

(* ------------- citation counts beside callers of the gateway ----------- *)
\* The calls of get_citation_counts with at most one identifier.
SingleCitationCalls == {in \in CitationCalls : Len(in.pmids) <= 1}

\* One task asks for citation counts while the other tasks call the gateway.
CitationNext ==
  \/ Tick
  \/ \E c \in Callers \ {Client} : RawCall(c)
  \/ \E c \in Callers \ {Client} : GatewayStep(c)
  \/ \E c \in Callers \ {Client} : RawFinish(c)
  \/ ToolCitationsFrom(Client, SingleCitationCalls)
  \/ CitationsContinue(Client)

CitationSpec == Init /\ [][CitationNext]_vars

(* ======================= claims: rate limiter ========================== *)

\* C1: whatever the interleaving of the callers, the timestamps the limiter has
\* recorded never number more than max_requests inside a rolling interval of
\* length window_seconds: at every instant at most MaxRequests recorded
\* timestamps are younger than Window (the interval (now - W, now]).
RateBound == Len(recorded) <= MaxRequests

\* The window is full and a caller that found it full is suspended.
RateBoundWitness ==
  /\ Len(recorded) = MaxRequests
  /\ \E c \in Callers : pc[c] = "sleeping"

\* C2: under fair scheduling and advancing time every acquire() that had to
\* suspend (on the lock or on the full window) eventually records its call and
\* returns, i.e. its request goes out.
AcquireEventuallyReturns ==
  \A c \in Callers : (pc[c] \in {"lock_wait", "sleeping"}) ~> (pc[c] = "in_flight")

(* ========================== claims: gateway ============================ *)

\* C3: a call of _make_request that has ended did not end on a 429 answer: what
\* it hands back (a response or an exception) comes from a later non-429 attempt.
ThrottleAbsorbed ==
  \A c \in Callers :
    (pc[c] = "idle" /\ result[c].kind /= "none") => resp[c].status /= 429

\* C4: when the transport fails an attempt (connection error, timeout), the task's
\* next step ends the call with PubMedAPIError, without another attempt and
\* without touching the limiter.
TransportFailsFast ==
  [][\A c \in Callers :
      (pc[c] = "responded" /\ resp[c].kind = "request_error" /\ pc'[c] /= pc[c])
        => /\ pc'[c] = "idle"
           /\ result'[c].kind = "raise"
           /\ result'[c].exc = "PubMedAPIError"
           /\ UNCHANGED limiterVars]_vars

\* A call ended with PubMedAPIError after its transport attempt failed.
TransportFailsFastWitness ==
  \E c \in Callers :
    /\ pc[c] = "idle"
    /\ resp[c].kind = "request_error"
    /\ result[c].kind = "raise"
    /\ result[c].exc = "PubMedAPIError"

\* C5: when an attempt is answered with a status that is neither 2xx nor 429, the
\* task's next step ends the call, without retry, with an exception that is not
\* the transport-failure kind and that carries the status.
HttpErrorCarriesStatus ==
  [][\A c \in Callers :
      (/\ pc[c] = "responded"
       /\ resp[c].kind = "http"
       /\ ~(resp[c].status >= 200 /\ resp[c].status < 300)
       /\ resp[c].status /= 429
       /\ pc'[c] /= pc[c])
        => /\ pc'[c] = "idle"
           /\ result'[c].kind = "raise"
           /\ result'[c].exc /= "PubMedAPIError"
           /\ result'[c].status = resp[c].status
           /\ UNCHANGED limiterVars]_vars

\* A call ended with the status-carrying exception for a 404 answer.
HttpErrorCarriesStatusWitness ==
  \E c \in Callers :
    /\ pc[c] = "idle"
    /\ resp[c].status = 404
    /\ result[c].kind = "raise"
    /\ result[c].exc = "HTTPStatusError"
    /\ result[c].status = 404

(* ======================== claims: search tool ========================== *)
\* The step is task c, idle until now, invoking the search tool.
SearchInvoked(c) ==
  /\ pc[c] = "idle"
  /\ tool'[c] = "search"
  /\ <<tool[c], args[c], result[c], call[c], resp[c], locals[c], pc[c]>>
       /= <<tool'[c], args'[c], result'[c], call'[c], resp'[c], locals'[c], pc'[c]>>

AllWhitespace(q) == \A i \in DOMAIN q : q[i] \in Whitespace

\* C6 (as stated): a search with an empty or whitespace-only query returns an
\* empty result with total count 0 and no items, and no gateway call is issued.
EmptyQueryZeroCount ==
  \A c \in Callers :
    (tool[c] = "search" /\ AllWhitespace(args[c].query) /\ result[c].kind /= "none")
      => /\ result[c].kind = "return"
         /\ "count" \in DOMAIN result[c].value
         /\ result[c].value.count = 0
         /\ call[c] = NoCall

\* C6 (amended): a search with an empty or whitespace-only query returns at once
\* {"results": []} (an empty item list; the tool's result has no total count),
\* issues no gateway call and acquires nothing from the limiter: the rate window,
\* the lock and its queue are unchanged.
EmptyQueryNoCall ==
  [][\A c \in Callers :
      (SearchInvoked(c) /\ AllWhitespace(args'[c].query))
        => /\ pc'[c] = "idle"
           /\ result'[c] = Returned([results |-> <<>>])
           /\ call'[c] = NoCall
           /\ UNCHANGED limiterVars]_vars

\* A whitespace-only query was answered with the empty result while the rate
\* window held timestamps of earlier calls.
EmptyQueryNoCallWitness ==
  \E c \in Callers :
    /\ tool[c] = "search"
    /\ args[c].query = <<" ", "\t">>
    /\ result[c] = Returned([results |-> <<>>])
    /\ requests /= <<>>

\* C7 (as stated): every search whose sort mode is neither 'relevance' nor
\* 'pub_date' is rejected as a caller-input error before any gateway call or
\* limiter acquisition, whatever the other arguments are.
InvalidSortAlwaysRejected ==
  [][\A c \in Callers :
      (SearchInvoked(c) /\ args'[c].sort \notin {"relevance", "pub_date"})
        => /\ pc'[c] = "idle"
           /\ result'[c].kind = "raise"
           /\ result'[c].msg = "Invalid sort parameter"
           /\ call'[c] = NoCall
           /\ UNCHANGED limiterVars]_vars

\* C7 (amended): every search with a query that is not empty or whitespace-only
\* and a sort mode that is neither 'relevance' nor 'pub_date' is rejected with
\* the invalid-sort ValueError (not the "Search failed" one of a network error)
\* before any gateway call or limiter acquisition, whatever retmax is; with an
\* empty or whitespace-only query the sort mode is not looked at (C6 applies).
InvalidSortRejected ==
  [][\A c \in Callers :
      (/\ SearchInvoked(c)
       /\ args'[c].sort \notin {"relevance", "pub_date"}
       /\ ~AllWhitespace(args'[c].query))
        => /\ pc'[c] = "idle"
           /\ result'[c] = Raised("ValueError", "Invalid sort parameter", 0)
           /\ call'[c] = NoCall
           /\ UNCHANGED limiterVars]_vars

\* A search for a real query with sort mode "date" was rejected.
InvalidSortRejectedWitness ==
  \E c \in Callers :
    /\ tool[c] = "search"
    /\ args[c].sort = "date"
    /\ args[c].query = <<"c", "o", "v", "i", "d">>
    /\ result[c] = Raised("ValueError", "Invalid sort parameter", 0)
    /\ call[c] = NoCall

\* The identifiers of a list of items.
ItemIds(items) == [i \in DOMAIN items |-> items[i].pmid]

\* C8: the items search_pubmed returns after the summary call are exactly the
\* identifiers of the identifier list that have a record in the summary answer,
\* in identifier-list order (none when the answer has no "result"); a missing
\* identifier is dropped, and the tool's results list the same identifiers.
SummaryJoin ==
  \A c \in Callers :
    (/\ tool[c] = "search"
     /\ pc[c] = "idle"
     /\ locals[c].tag = "search"
     /\ locals[c].ret.kind = "return"
     /\ call[c].endpoint = "esummary")
      => LET body == resp[c].body
             HasRecord(p) == body.has_result /\ body.records[p] /= "missing"
             kept == SelectSeq(locals[c].pmids, HasRecord)
         IN /\ ItemIds(locals[c].ret.value.items) = kept
            /\ result[c].kind = "return"
            /\ [i \in DOMAIN result[c].value.results |-> result[c].value.results[i].id]
                 = kept

\* Identifier list <<"11", "22">>, the summary has a record for "22" only, and the
\* search returned the one item "22".
SummaryJoinWitness ==
  \E c \in Callers :
    /\ tool[c] = "search"
    /\ pc[c] = "idle"
    /\ locals[c].tag = "search"
    /\ locals[c].pmids = <<"11", "22">>
    /\ call[c].endpoint = "esummary"
    /\ resp[c].body.fmt = "esummary"
    /\ resp[c].body.has_result
    /\ resp[c].body.records["11"] = "missing"
    /\ resp[c].body.records["22"] = "plain"
    /\ locals[c].ret.kind = "return"
    /\ ItemIds(locals[c].ret.value.items) = <<"22">>

\* C9: for every upstream response the search returns at most `limit` items,
\* limit being retmax after the tool's clamp to 1..200.
AtMostLimitItems ==
  \A c \in Callers :
    (tool[c] = "search" /\ locals[c].tag = "search" /\ result[c].kind = "return")
      => /\ Len(result[c].value.results) <= locals[c].retmax
         /\ locals[c].retmax = Clamp(args[c].retmax, 1, 200)

(* ================== claims: find_similar_articles ====================== *)
\* The attempt of task c was failed by the transport, answered with an error
\* status, or answered with a body that does not parse.
StepFailed(c) ==
  \/ resp[c].kind = "request_error"
  \/ resp[c].kind = "http" /\ resp[c].status \in ErrorStatuses
  \/ resp[c].kind = "http" /\ resp[c].status = 200 /\ resp[c].body.fmt = "malformed"

\* C10: find_similar_articles never raises to its caller, neither the client's
\* method nor the tool; when its seed fetch, identifier search or summary call
\* fails (transport error, HTTP error, malformed XML or JSON) its next step ends
\* it, returning similar_articles = [], count = 0 and a non-null error, with no
\* further gateway call: the request stays the failed one and the limiter is
\* not touched.
SimilarNeverRaises ==
  /\ [](\A c \in Callers :
          (tool[c] = "find_similar" /\ result[c].kind /= "none")
            => /\ result[c].kind = "return"
               /\ locals[c].tag = "find_similar" => locals[c].ret.kind = "return")
  /\ [][\A c \in Callers :
          (/\ tool[c] = "find_similar"
           /\ pc[c] = "responded"
           /\ StepFailed(c)
           /\ pc'[c] /= pc[c])
            => /\ pc'[c] = "idle"
               /\ locals'[c].ret.kind = "return"
               /\ locals'[c].ret.value.similar_articles = <<>>
               /\ locals'[c].ret.value.count = 0
               /\ locals'[c].ret.value.error /= None
               /\ result'[c] = locals'[c].ret
               /\ call'[c] = call[c]
               /\ UNCHANGED limiterVars]_vars

\* The seed fetch and the identifier search succeeded, the summary call was
\* answered with a body that is not JSON, and find_similar_articles returned the
\* empty result with an error message.
SimilarNeverRaisesWitness ==
  \E c \in Callers :
    /\ tool[c] = "find_similar"
    /\ pc[c] = "idle"
    /\ call[c].endpoint = "esummary"
    /\ resp[c].status = 200
    /\ resp[c].body = Malformed
    /\ result[c].kind = "return"
    /\ result[c].value.similar_articles = <<>>
    /\ result[c].value.count = 0
    /\ result[c].value.error /= None

FullTextFetched(c) ==
  /\ tool[c] = "get_full_text"
  /\ pc[c] = "idle"
  /\ locals[c].tag = "get_full_text"
  /\ locals[c].fetched
  /\ result[c].kind /= "none"

\* C12: get_full_text on a structured document that has no body subtree returns
\* sections = [], a parsing_error that is not null and status = 'success',
\* whatever the open-access fetch that follows does.
NoBodyIsSuccess ==
  \A c \in Callers :
    (FullTextFetched(c) /\ locals[c].jats.fmt = "jats" /\ ~locals[c].jats.has_body)
      => /\ result[c].kind = "return"
         /\ result[c].value.sections = <<>>
         /\ result[c].value.parsing_error /= None
         /\ result[c].value.status = "success"

\* The document had no body, the open-access answer had a pdf link, and the
\* result is a success without sections.
NoBodyIsSuccessWitness ==
  \E c \in Callers :
    /\ FullTextFetched(c)
    /\ locals[c].jats = JatsDocument(FALSE, <<>>)
    /\ resp[c].body.fmt = "oa"
    /\ resp[c].body.shape = "link_pdf"
    /\ result[c].value.status = "success"
    /\ result[c].value.sections = <<>>
    /\ result[c].value.parsing_error = "No body element found in JATS XML"

\* C13: when the structured-document fetch has succeeded, every outcome of the
\* open-access fetch (transport failure, error status, a 429 that cannot be
\* retried, text that is not XML, no record, no pdf link) leaves status =
\* 'success' and sections and parsing_error as the structured document alone
\* gives them; pdf_url is the href of the pdf link when the answer has one and
\* null otherwise.
OaFetchCannotFail ==
  \A c \in Callers :
    FullTextFetched(c)
      => /\ call[c].endpoint = "oa"
         /\ result[c].kind = "return"
         /\ result[c].value.status = "success"
         /\ result[c].value.sections = ParseJatsBody(locals[c].jats).sections
         /\ result[c].value.parsing_error = ParseJatsBody(locals[c].jats).error
         /\ result[c].value.pdf_url =
              IF /\ resp[c].kind = "http"
                 /\ resp[c].status = 200
                 /\ resp[c].body.fmt = "oa"
                 /\ resp[c].body.shape \in {"link_pdf", "links_tgz_pdf"}
              THEN PdfHref ELSE None

\* The document had sections, the open-access fetch failed in the transport, and
\* the result is a success with the sections and no pdf_url.
OaFetchCannotFailWitness ==
  \E c \in Callers :
    /\ FullTextFetched(c)
    /\ locals[c].jats = JatsDocument(TRUE, IntroMethodsBody)
    /\ call[c].endpoint = "oa"
    /\ resp[c].kind = "request_error"
    /\ result[c].value.status = "success"
    /\ Len(result[c].value.sections) = 2
    /\ result[c].value.pdf_url = None

\* C14 (as stated): the body with Intro ("A B") and Methods ("C D", nested Sub
\* with "E") yields exactly [{Intro, "A B"}, {Methods, "C D\n\nSub:\nE"}].
FlattenedAsStated ==
  \A c \in Callers :
    (FullTextFetched(c) /\ locals[c].jats = JatsDocument(TRUE, IntroMethodsBody))
      => result[c].value.sections =
           <<[title |-> <<"I", "n", "t", "r", "o">>, text |-> <<"A", " ", "B">>],
             [title |-> <<"M", "e", "t", "h", "o", "d", "s">>, text |-> <<"C", " ", "D", "\n", "\n", "S", "u", "b", ":", "\n", "E">>]>>

\* C14 (amended): the same body yields exactly [{Intro, "A B"}, {Methods,
\* "C D\n\n\nSub:\n\nE"}]: the marker "\nSub:" and each paragraph text are parts
\* of their own, and all the parts of a top-level section are joined by "\n\n";
\* a nested section without title adds no marker, sections nested deeper add
\* their parts the same way, in document order, and a top-level section without
\* text is left out.
FlattenedByParts ==
  \A c \in Callers :
    /\ (FullTextFetched(c) /\ locals[c].jats = JatsDocument(TRUE, IntroMethodsBody))
         => result[c].value.sections =
              <<[title |-> <<"I", "n", "t", "r", "o">>, text |-> <<"A", " ", "B">>],
                [title |-> <<"M", "e", "t", "h", "o", "d", "s">>, text |-> <<"C", " ", "D", "\n", "\n", "\n", "S", "u", "b", ":", "\n", "\n", "E">>]>>
    /\ (FullTextFetched(c) /\ locals[c].jats = JatsDocument(TRUE, RaggedBody))
         => result[c].value.sections =
              <<[title |-> <<"U", "n", "t", "i", "t", "l", "e", "d", " ", "S", "e", "c", "t", "i", "o", "n">>, text |-> <<"x", " ", "y">>],
                [title |-> <<"T">>, text |-> <<"E", "\n", "\n", "\n", "D", "e", "e", "p", ":", "\n", "\n", "F">>]>>

\* The Intro/Methods document was fetched and its Methods text carries the nested
\* section after its own paragraph.
FlattenedByPartsWitness ==
  \E c \in Callers :
    /\ FullTextFetched(c)
    /\ locals[c].jats = JatsDocument(TRUE, IntroMethodsBody)
    /\ Len(result[c].value.sections) = 2
    /\ result[c].value.sections[2].title = <<"M", "e", "t", "h", "o", "d", "s">>
    /\ Len(result[c].value.sections[2].text) = 13

(* ===================== claims: get_citation_counts ===================== *)
\* get_citation_counts of task c has called the counting service and is over.
CitationsDone(c) ==
  /\ tool[c] = "get_citation_counts"
  /\ pc[c] = "idle"
  /\ locals[c].tag = "get_citation_counts"

\* C15: with more than 1000 identifiers get_citation_counts sends the first 1000
\* only, and when that call fails (error status or transport failure) it returns,
\* without raising, one record for every identifier of its input, in input
\* order, each with citation_count = null and an error note.
FailedBatchCoversAll ==
  \A c \in Callers :
    /\ (tool[c] = "get_citation_counts" /\ locals[c].tag = "get_citation_counts"
        /\ Len(locals[c].pmids) > 1000)
         => call[c].params.pmids = SubSeq(locals[c].pmids, 1, 1000)
    /\ (/\ CitationsDone(c)
        /\ Len(locals[c].pmids) > 1000
        /\ \/ resp[c].kind = "request_error"
           \/ resp[c].kind = "http" /\ resp[c].status >= 400)
         => /\ locals[c].ret.kind = "return"
            /\ Len(locals[c].ret.value) = Len(locals[c].pmids)
            /\ \A i \in DOMAIN locals[c].pmids :
                 /\ locals[c].ret.value[i].pmid = locals[c].pmids[i]
                 /\ locals[c].ret.value[i].citation_count = None
                 /\ "error" \in DOMAIN locals[c].ret.value[i]
            /\ result[c] = Returned([items |-> locals[c].ret.value])

\* 1200 identifiers were given, 1000 were sent, the service answered 500 and 1200
\* records came back.
FailedBatchCoversAllWitness ==
  \E c \in Callers :
    /\ CitationsDone(c)
    /\ Len(locals[c].pmids) = 1000 + Excess
    /\ Len(call[c].params.pmids) = 1000
    /\ resp[c].status = 500
    /\ result[c].kind = "return"
    /\ Len(result[c].value.items) = 1000 + Excess

\* C16: for every input and every outcome of the counting service,
\* get_citation_counts returns exactly one record for each requested identifier:
\* as many records as identifiers, and a record for each of them.
OneRecordPerIdentifier ==
  \A c \in Callers :
    CitationsDone(c)
      => /\ locals[c].ret.kind = "return"
         /\ Len(locals[c].ret.value) = Len(locals[c].pmids)
         /\ \A i \in DOMAIN locals[c].pmids :
              \E j \in DOMAIN locals[c].ret.value :
                locals[c].ret.value[j].pmid = locals[c].pmids[i]

(* ==================== claims: fetch and fetch_batch ==================== *)
\* C17: when the abstract document is well-formed but holds no article record,
\* the single fetch and the batch fetch both end with a result (an explicit empty
\* or structural one) and do not raise.
EmptyDocumentNotAnError ==
  \A c \in Callers :
    (/\ tool[c] \in {"fetch", "fetch_batch"}
     /\ pc[c] = "idle"
     /\ call[c].endpoint = "efetch.articles"
     /\ resp[c].kind = "http"
     /\ resp[c].status = 200
     /\ resp[c].body.fmt = "articleset"
     /\ resp[c].body.articles = <<>>)
      => result[c].kind = "return"

(* ===================== claims: caller-input errors ===================== *)
\* No identifier of the list has a character that is not whitespace.
NoIdentifier(pmids) == \A i \in DOMAIN pmids : AllWhitespace(pmids[i])

\* The input of a tool call is empty or malformed: fetch with an empty or
\* whitespace-only id or one with ',' '[' or ']'; find_similar_articles with an
\* empty, whitespace-only or non-numeric pmid; get_full_text with an empty or
\* whitespace-only pmcid; fetch_batch or get_citation_counts with no identifier.
BadInput(t, a) ==
  CASE t = "fetch" ->
         \/ AllWhitespace(a.id)
         \/ \E i \in DOMAIN a.id : a.id[i] \in {",", "[", "]"}
    [] t = "find_similar" ->
         \/ AllWhitespace(a.pmid)
         \/ \E i \in DOMAIN a.pmid : a.pmid[i] \notin Digits \cup Whitespace
    [] t = "get_full_text" -> AllWhitespace(a.pmcid)
    [] t \in {"fetch_batch", "get_citation_counts"} -> NoIdentifier(a.pmids)
    [] OTHER -> FALSE

\* The step is task c, idle until now, invoking a tool with such an input.
BadIdentifierInput(c) ==
  /\ pc[c] = "idle"
  /\ args'[c].tag = tool'[c]
  /\ BadInput(tool'[c], args'[c])
  /\ <<tool[c], args[c], result[c], call[c], resp[c], locals[c], pc[c]>>
       /= <<tool'[c], args'[c], result'[c], call'[c], resp'[c], locals'[c], pc'[c]>>

\* C18: a request with empty or malformed identifier input is answered in the
\* step that makes it, with an error or an explicit empty result, and with no
\* gateway call, no call of the counting service and no limiter acquisition.
BadInputAnsweredAtOnce ==
  [][\A c \in Callers :
      BadIdentifierInput(c)
        => /\ pc'[c] = "idle"
           /\ result'[c].kind \in {"return", "raise"}
           /\ result'[c].kind = "raise" => result'[c].exc = "ValueError"
           /\ result'[c].kind = "return" =>
                \/ "items" \in DOMAIN result'[c].value /\ result'[c].value.items = <<>>
                \/ "error" \in DOMAIN result'[c].value /\ result'[c].value.error /= None
           /\ call'[c] = NoCall
           /\ resp'[c] = NoResp
           /\ UNCHANGED limiterVars]_vars

\* fetch was called with "[42]" while the rate window held earlier timestamps, and
\* was rejected with no request made.
BadInputAnsweredAtOnceWitness ==
  \E c \in Callers :
    /\ tool[c] = "fetch"
    /\ args[c].id = <<"[", "4", "2", "]">>
    /\ pc[c] = "idle"
    /\ result[c].kind = "raise"
    /\ call[c] = NoCall
    /\ requests /= <<>>

(* =================== claims: limiter and gateway order ================= *)
\* C19: every HTTP attempt of _make_request, the first one and each one after a
\* 429, is sent in the step in which that same invocation completes its own
\* acquire(), i.e. records its timestamp, and the transport answers only attempts
\* sent that way; so the attempts never outnumber the completed acquisitions.
AttemptOnlyAfterAcquire ==
  [][\A c \in Callers :
      /\ (pc'[c] = "in_flight" /\ pc[c] /= "in_flight")
           => /\ Len(requests') > 0
              /\ requests'[Len(requests')] = 0
              /\ Len(requests') = Len(Evict(requests)) + 1
              /\ recorded' = Append(recorded, 0)
      /\ (resp'[c] /= resp[c] /\ resp'[c] /= NoResp)
           => pc[c] \in {"in_flight", "icite_wait"}
      /\ (pc[c] = "backoff" /\ pc'[c] /= "backoff")
           => \/ pc'[c] = "lock_wait"
              \/ pc'[c] = "sleeping"
              \/ pc'[c] = "in_flight" /\ recorded' = Append(recorded, 0)]_vars

\* A re-attempt after a 429 is in flight, its timestamp the newest of the window.
AttemptOnlyAfterAcquireWitness ==
  \E c \in Callers :
    /\ pc[c] = "in_flight"
    /\ resp[c].status = 429
    /\ requests /= <<>>
    /\ requests[Len(requests)] = 0

\* C20: while a caller of acquire() is suspended until the oldest timestamp
\* expires the limiter stays open to the other callers (the suspended caller does
\* not hold the lock), and a caller suspended that way eventually runs the
\* evict-and-check step again.
OpenWhileSuspended ==
  /\ [](\A c \in Callers : pc[c] = "sleeping" => lockHolder = 0)
  /\ \A c \in Callers :
       (pc[c] = "sleeping") ~> (pc[c] = "in_flight" \/ (pc[c] = "sleeping" /\ timer[c] > 0))

(* ==================== claims: the limiter's lock ======================= *)
\* Task c is inside "async with self.lock": it has read the window and has not
\* recorded its timestamp, asleep until the oldest timestamp expires or, after
\* that sleep, inside the acquire() it called from there.
InCritical(c) ==
  \/ pc[c] = "sleeping"
  \/ pc[c] = "lock_wait" /\ lockHolder = c

\* C21: the read-evict-check-record sequence of acquire() runs under mutual
\* exclusion: never are two callers at once between reading the window and
\* recording their timestamp, the one that is there holds the lock, and a
\* timestamp is only ever recorded into a window that has a free slot.
CriticalSectionExclusive ==
  /\ [](\A c, d \in Callers : (InCritical(c) /\ InCritical(d)) => c = d)
  /\ [](\A c \in Callers : InCritical(c) => lockHolder = c)
  /\ [][recorded' /= recorded /\ Len(recorded') > Len(recorded)
          => Len(requests') <= MaxRequests /\ lockHolder = 0]_vars

\* One caller found the window full and is suspended inside the critical
\* section while another caller waits for the lock.
CriticalSectionExclusiveWitness ==
  \E c, d \in Callers :
    /\ c /= d
    /\ pc[c] = "sleeping"
    /\ lockHolder = c
    /\ pc[d] = "lock_wait"
    /\ Len(requests) = MaxRequests

(* ==================== claims: the calls of search_pubmed =============== *)
\* The answer task c has got is one search_pubmed can read as a search result:
\* status 200, JSON with "esearchresult", its count absent or an integer.
ReadableSearchResult(c) ==
  /\ resp[c].kind = "http"
  /\ resp[c].status = 200
  /\ resp[c].body.fmt = "esearch"
  /\ resp[c].body.has_result
  /\ resp[c].body.count \in {"absent", "0", "1"}

\* Task c, inside search_pubmed, goes on from the answer to its call (a 429 is
\* answered by a re-attempt of the same call and is not such a step).
SearchGoesOn(c) ==
  /\ tool[c] = "search"
  /\ pc[c] = "responded"
  /\ ~(resp[c].kind = "http" /\ resp[c].status = 429)
  /\ pc'[c] /= pc[c]

\* C22: search_pubmed issues exactly one identifier-search call and then at most
\* one summary call (re-attempts after a 429 are the same call).  Its first
\* request is the esearch call; after a readable search result the summary call
\* is issued, for that identifier list, if and only if the list is not empty, and
\* with an empty list the method returns the total count with items = [] and no
\* further call; when the search call fails or its answer cannot be read the
\* method raises with no further call; the summary call is the last one.
OneSearchThenOneSummary ==
  [][\A c \in Callers :
      /\ (SearchInvoked(c) /\ call'[c] /= NoCall)
           => call'[c].endpoint = "esearch"
      /\ (SearchGoesOn(c) /\ call[c].endpoint = "esearch" /\ ReadableSearchResult(c)
          /\ resp[c].body.idlist /= <<>>)
           => /\ call'[c].endpoint = "esummary"
              /\ call'[c].params.id = resp[c].body.idlist
              /\ pc'[c] /= "idle"
              /\ result'[c].kind = "none"
      /\ (SearchGoesOn(c) /\ call[c].endpoint = "esearch" /\ ReadableSearchResult(c)
          /\ resp[c].body.idlist = <<>>)
           => /\ pc'[c] = "idle"
              /\ call'[c] = call[c]
              /\ locals'[c].ret.kind = "return"
              /\ locals'[c].ret.value.items = <<>>
              /\ locals'[c].ret.value.count =
                   (IF resp[c].body.count = "1" THEN 1 ELSE 0)
              /\ UNCHANGED limiterVars
      /\ (SearchGoesOn(c) /\ call[c].endpoint = "esearch" /\ ~ReadableSearchResult(c))
           => /\ pc'[c] = "idle"
              /\ call'[c] = call[c]
              /\ locals'[c].ret.kind = "raise"
              /\ UNCHANGED limiterVars
      /\ (SearchGoesOn(c) /\ call[c].endpoint = "esummary")
           => /\ pc'[c] = "idle"
              /\ call'[c] = call[c]
              /\ UNCHANGED limiterVars]_vars

\* A search whose identifier list came back empty with count "1" ended after the
\* esearch call alone, returning that count and no items.
OneSearchThenOneSummaryWitness ==
  \E c \in Callers :
    /\ tool[c] = "search"
    /\ pc[c] = "idle"
    /\ call[c].endpoint = "esearch"
    /\ resp[c].status = 200
    /\ resp[c].body.fmt = "esearch"
    /\ resp[c].body.idlist = <<>>
    /\ resp[c].body.count = "1"
    /\ locals[c].tag = "search"
    /\ locals[c].ret = SearchReturn(1, <<>>, locals[c].retmax)

(* ============== claims: citation counts and the limiter ================ *)
\* The step is one of task c in get_citation_counts: its invocation or its end.
CitationsStep(c) ==
  /\ tool'[c] = "get_citation_counts"
  /\ <<tool[c], args[c], result[c], call[c], resp[c], locals[c], pc[c]>>
       /= <<tool'[c], args'[c], result'[c], call'[c], resp'[c], locals'[c], pc'[c]>>

\* C23: get_citation_counts never acquires the shared rate limiter: its steps
\* leave the rate window, the lock and the lock's queue unchanged and start no
\* sleep, the task is never suspended in acquire() or in a back-off, and the
\* answer to its single call of the counting service ends it whatever state
\* the limiter is in, saturated or held by a suspended caller.
CitationsBypassLimiter ==
  /\ [][\A c \in Callers :
          CitationsStep(c)
            => /\ UNCHANGED <<limiterVars, timer>>
               /\ pc'[c] \in {"idle", "icite_wait"}
               /\ pc[c] = "idle" /\ call'[c] /= NoCall
                    => pc'[c] = "icite_wait" /\ call'[c].endpoint = "icite"
               /\ pc[c] = "icite_wait" => pc'[c] = "idle" /\ result'[c].kind /= "none"]_vars
  /\ [](\A c \in Callers :
          tool[c] = "get_citation_counts" => pc[c] \in {"idle", "icite_wait"})
  /\ [](\A c \in Callers :
          pc[c] = "icite_wait" => ENABLED <<CitationsContinue(c)>>_vars)

\* A call of get_citation_counts got its records while the rate window was full
\* and another caller was suspended in acquire() holding the lock.
CitationsBypassLimiterWitness ==
  \E c, d \in Callers :
    /\ c /= d
    /\ CitationsDone(c)
    /\ resp[c].status = 200
    /\ result[c].kind = "return"
    /\ result[c].value.items /= <<>>
    /\ pc[d] \in {"sleeping", "lock_wait"}
    /\ lockHolder = d
    /\ Len(requests) = MaxRequests

(* ================= claims: the derived similarity query ================ *)
\* Task c, in find_similar_articles, goes from the seed document to the
\* identifier search.
SimilarSearchIssued(c) ==
  /\ tool[c] = "find_similar"
  /\ pc[c] = "responded"
  /\ call[c].endpoint = "efetch"
  /\ call'[c].endpoint = "esearch"

\* The clauses of a query for one field, in query order.
ClausesOf(term, field) ==
  LET InField(t) == t.kind = "clause" /\ t.field = field
      kept == SelectSeq(term, InField)
  IN [i \in DOMAIN kept |-> kept[i].text]

\* C24: every title keyword clause of the derived query is a title token that,
\* lowercased and stripped of surrounding punctuation, is longer than 3 and not
\* in the stop list; the keyword clauses are the first 2 such tokens and the
\* vocabulary clauses the first 3 descriptor terms, in document order.
KeywordsAreFiltered ==
  [][\A c \in Callers :
      SimilarSearchIssued(c)
        => LET doc == resp[c].body
               keywords == ClausesOf(call'[c].params.term, "Title/Abstract")
               vocabulary == ClausesOf(call'[c].params.term, "MeSH Terms")
               tokens == [i \in DOMAIN doc.title.words |->
                            Lower(StripPunctuation(doc.title.words[i]))]
               Meaningful(t) == Len(t) > 3 /\ t \notin StopList
               HasDescriptor(h) == h /= NoDescriptor
           IN /\ \A i \in DOMAIN keywords : Meaningful(keywords[i])
              /\ keywords = Prefix(SelectSeq(tokens, Meaningful), 2)
              /\ vocabulary = Prefix(SelectSeq(doc.mesh, HasDescriptor), 3)]_vars

\* An article as the query sees it: whether it is the seed (its identifier is
\* the one of the [PMID] clause) and which positions of the query hold a
\* vocabulary or keyword clause it satisfies.
QueryArticles(term) ==
  [is_seed : BOOLEAN,
   sat : SUBSET {i \in DOMAIN term : term[i].kind = "clause" /\ term[i].field /= "PMID"}]

Satisfies(a, term, i) ==
  IF term[i].field = "PMID" THEN a.is_seed ELSE i \in a.sat

\* The query as the search service reads it: the Boolean operators applied from
\* left to right (there are no parentheses), NOT being "and not".
RECURSIVE MatchesFrom(_, _, _, _)
MatchesFrom(a, term, i, acc) ==
  IF i > Len(term) THEN acc
  ELSE IF term[i].kind = "OR"
    THEN MatchesFrom(a, term, i + 2, acc \/ Satisfies(a, term, i + 1))
  ELSE IF term[i].kind = "NOT"
    THEN MatchesFrom(a, term, i + 2, acc /\ ~Satisfies(a, term, i + 1))
  ELSE MatchesFrom(a, term, i + 2, acc /\ Satisfies(a, term, i + 1))
Matches(a, term) == MatchesFrom(a, term, 2, Satisfies(a, term, 1))

\* C25: whenever find_similar_articles has issued its identifier search, the
\* derived query is 1 to 5 positive clauses, the vocabulary clauses before the
\* keyword clauses, joined by OR, followed by one NOT and the [PMID] clause of
\* the seed, the only negation; read from left to right it is the whole
\* disjunction and not the seed: an article matches it exactly when it satisfies
\* one of the positive clauses and is not the seed, so the seed never matches.
DisjunctionExcludesSeed ==
  \A c \in Callers :
    (tool[c] = "find_similar" /\ call[c].endpoint = "esearch")
      => LET term == call[c].params.term
             n == Len(term)
             k == (n - 1) \div 2
         IN /\ n = 2 * k + 1
            /\ k \in 1..5
            /\ \A i \in 1..k :
                 /\ term[2 * i - 1].kind = "clause"
                 /\ term[2 * i - 1].field \in {"MeSH Terms", "Title/Abstract"}
                 /\ i < k => term[2 * i].kind = "OR"
            /\ \A i, j \in 1..k :
                 (i < j /\ term[2 * i - 1].field = "Title/Abstract")
                   => term[2 * j - 1].field = "Title/Abstract"
            /\ term[n - 1].kind = "NOT"
            /\ term[n] = [kind |-> "clause", text |-> locals[c].pmid, field |-> "PMID"]
            /\ \A a \in QueryArticles(term) :
                 Matches(a, term) <=> (~a.is_seed /\ \E i \in 1..k : (2 * i - 1) \in a.sat)

\* The identifier search went out with three vocabulary clauses and two keyword
\* clauses before the exclusion of seed 42.
DisjunctionExcludesSeedWitness ==
  \E c \in Callers :
    /\ tool[c] = "find_similar"
    /\ call[c].endpoint = "esearch"
    /\ Len(call[c].params.term) = 11
    /\ call[c].params.term[5].field = "MeSH Terms"
    /\ call[c].params.term[7].field = "Title/Abstract"
    /\ call[c].params.term[11].text = <<"4", "2">>

(* ================ claims: the full-text-available flag ================= *)
\* The summary record kinds whose article-identifier list has an entry tagged
\* "pmc".
PmcTagged == {"pmc", "pmc_novalue", "pmc_empty"}

\* C26: for every item a search returns, full_text_available is true if and only
\* if the summary record's article-identifier list has an entry tagged "pmc",
\* the pmcid is there exactly when the flag is true, and the search tool reports
\* the flag (and the pmcid) that search_pubmed computed.
FlagIffPmcEntry ==
  \A c \in Callers :
    (/\ tool[c] = "search"
     /\ pc[c] = "idle"
     /\ locals[c].tag = "search"
     /\ locals[c].ret.kind = "return"
     /\ call[c].endpoint = "esummary")
      => LET items == locals[c].ret.value.items
             results == result[c].value.results
         IN /\ Len(results) = Len(items)
            /\ \A i \in DOMAIN items :
                 /\ items[i].full_text_available
                      <=> resp[c].body.records[items[i].pmid] \in PmcTagged
                 /\ items[i].pmcid /= None <=> items[i].full_text_available
                 /\ results[i].full_text_available = items[i].full_text_available
                 /\ results[i].pmcid /= Absent <=> results[i].full_text_available

(* ========================= claims: get_abstracts ======================= *)
\* Task c, inside get_abstracts, goes on from the answer to its call (a 429 is
\* answered by a re-attempt of the same call and is not such a step).
AbstractsGoOn(c) ==
  /\ tool[c] \in {"fetch", "fetch_batch"}
  /\ pc[c] = "responded"
  /\ ~(resp[c].kind = "http" /\ resp[c].status = 429)
  /\ pc'[c] /= pc[c]

\* C27: get_abstracts, called with a list of identifiers that is not empty,
\* issues exactly one gateway call: a POST to efetch for that list, and nothing
\* after its answer; when the answer is an article set, the output has one
\* record for every article record with a PMID node, none for the others, in
\* the order of the answer.
OneCallOneRecordPerPmid ==
  [][\A c \in Callers :
      /\ (/\ pc[c] = "idle"
          /\ tool'[c] \in {"fetch", "fetch_batch"}
          /\ locals'[c] /= locals[c]
          /\ locals'[c].tag = "get_abstracts")
           => /\ locals'[c].pmids /= <<>>
              /\ call'[c].endpoint = "efetch.articles"
              /\ call'[c].method = "POST"
              /\ call'[c].params.id = locals'[c].pmids
              /\ pc'[c] /= "idle"
      /\ AbstractsGoOn(c)
           => /\ pc'[c] = "idle"
              /\ call'[c] = call[c]
              /\ UNCHANGED limiterVars
      /\ (AbstractsGoOn(c) /\ resp[c].kind = "http" /\ resp[c].status = 200
          /\ resp[c].body.fmt = "articleset")
           => LET HasPmidNode(a) == a.has_pmid
                  with_pmid == SelectSeq(resp[c].body.articles, HasPmidNode)
              IN /\ locals'[c].ret.kind = "return"
                 /\ ItemIds(locals'[c].ret.value)
                      = [i \in DOMAIN with_pmid |-> with_pmid[i].pmid]]_vars

\* The answer held an article record without PMID before the record of PMID 7,
\* and fetch_batch got the one record of PMID 7.
OneCallOneRecordPerPmidWitness ==
  \E c \in Callers :
    /\ tool[c] = "fetch_batch"
    /\ pc[c] = "idle"
    /\ call[c].endpoint = "efetch.articles"
    /\ call[c].method = "POST"
    /\ resp[c].status = 200
    /\ resp[c].body.fmt = "articleset"
    /\ Len(resp[c].body.articles) = 2
    /\ ~resp[c].body.articles[1].has_pmid
    /\ resp[c].body.articles[2].pmid = <<"7">>
    /\ result[c].kind = "return"
    /\ ItemIds(result[c].value.items) = <<<<"7">>>>

\* C28: in get_abstracts an author record gives a name to the authors list if
\* and only if it has both a ForeName and a LastName; a record lacking either
\* is skipped without error, and the names kept are in document order.
AuthorsNeedBothNames ==
  \A c \in Callers :
    (/\ tool[c] \in {"fetch", "fetch_batch"}
     /\ pc[c] = "idle"
     /\ call[c].endpoint = "efetch.articles"
     /\ resp[c].kind = "http"
     /\ resp[c].status = 200
     /\ resp[c].body.fmt = "articleset")
      => LET HasPmidNode(a) == a.has_pmid
             with_pmid == SelectSeq(resp[c].body.articles, HasPmidNode)
             HasBoth(a) == a.forename.present /\ a.lastname.present
         IN /\ locals[c].ret.kind = "return"
            /\ Len(locals[c].ret.value) = Len(with_pmid)
            /\ \A i \in DOMAIN with_pmid :
                 LET both == SelectSeq(with_pmid[i].authors, HasBoth) IN
                 locals[c].ret.value[i].authors
                   = [j \in DOMAIN both |-> both[j].forename.text \o " " \o both[j].lastname.text]

\* An article with five author records, two of them with both names, came back
\* with the authors "Jane Doe" and "Ann Roe".
AuthorsNeedBothNamesWitness ==
  \E c \in Callers :
    /\ tool[c] = "fetch_batch"
    /\ pc[c] = "idle"
    /\ call[c].endpoint = "efetch.articles"
    /\ resp[c].status = 200
    /\ resp[c].body.fmt = "articleset"
    /\ Len(resp[c].body.articles) > 0
    /\ resp[c].body.articles[1].has_pmid
    /\ Len(resp[c].body.articles[1].authors) = 5
    /\ result[c].kind = "return"
    /\ result[c].value.items[1].authors = <<"Jane Doe", "Ann Roe">>

(* ============ claims: get_full_text when the fetch fails =============== *)
\* C29: in get_full_text the open-access call is issued only in the step that
\* follows a successful answer (2xx) to the structured-document fetch; when that
\* fetch fails (transport error or HTTP error status) the next step ends the
\* operation with status 'error', sections = [] and pdf_url = null, issues no
\* open-access call and leaves the limiter alone; get_full_text never raises to
\* its caller.
FetchFailureIsErrorResult ==
  /\ [][\A c \in Callers :
          /\ (call'[c].endpoint = "oa" /\ call[c].endpoint /= "oa")
               => /\ tool[c] = "get_full_text"
                  /\ pc[c] = "responded"
                  /\ call[c].endpoint = "efetch.pmc"
                  /\ resp[c].kind = "http"
                  /\ resp[c].status >= 200 /\ resp[c].status < 300
          /\ (/\ tool[c] = "get_full_text"
              /\ pc[c] = "responded"
              /\ call[c].endpoint = "efetch.pmc"
              /\ \/ resp[c].kind = "request_error"
                 \/ resp[c].kind = "http" /\ resp[c].status \in ErrorStatuses
              /\ pc'[c] /= pc[c])
               => /\ pc'[c] = "idle"
                  /\ call'[c] = call[c]
                  /\ locals'[c].ret.kind = "return"
                  /\ result'[c] = locals'[c].ret
                  /\ result'[c].value.status = "error"
                  /\ result'[c].value.sections = <<>>
                  /\ result'[c].value.pdf_url = None
                  /\ UNCHANGED limiterVars]_vars
  /\ [](\A c \in Callers :
          (tool[c] = "get_full_text" /\ result[c].kind /= "none")
            => result[c].kind = "return")

\* The structured-document fetch was answered 500 and get_full_text returned
\* the error result, the fetch being the only request made.
FetchFailureIsErrorResultWitness ==
  \E c \in Callers :
    /\ tool[c] = "get_full_text"
    /\ pc[c] = "idle"
    /\ call[c].endpoint = "efetch.pmc"
    /\ resp[c].status = 500
    /\ result[c].kind = "return"
    /\ result[c].value.status = "error"
    /\ result[c].value.sections = <<>>
    /\ result[c].value.pdf_url = None

(* ==================== claims: the limiter's deque ====================== *)
\* The timestamps of the deque that are newer than now - window_seconds.
NewerThanWindow(q) == LET Newer(age) == age < Window IN SelectSeq(q, Newer)

\* C30: the limiter's deque never holds more than max_requests timestamps and
\* they are in non-decreasing order (oldest first), so the eviction loop, which
\* only looks at the head, removes exactly the timestamps that are not newer
\* than now - window_seconds: a caller that enters the critical section leaves
\* in the deque the newer ones, all of them, and at most its own after them.
DequeBoundedAndOrdered ==
  /\ [](Len(requests) <= MaxRequests)
  /\ [](\A i, j \in DOMAIN requests : i < j => requests[i] >= requests[j])
  /\ [][(pc' /= pc /\ requests' /= requests)
          => \/ requests' = NewerThanWindow(requests)
             \/ requests' = Append(NewerThanWindow(requests), 0)]_vars

\* The deque is full, its oldest timestamp has left the window and its newest
\* has not: the next acquire() evicts from the head.
DequeBoundedAndOrderedWitness ==
  /\ Len(requests) = MaxRequests
  /\ requests[1] >= Window
  /\ requests[MaxRequests] < Window

====
